---- MODULE Spec2Model ----
(***************************************************************************)
(* Model of the kubegraph core of noah-cloud:                              *)
(*   - the backend-polymorphic LazyFrame (crates/kubegraph/api/src/frame), *)
(*   - the in-memory graph store (crates/kubegraph/graph/memory),          *)
(*   - NetworkGraphRow and its content-addressed id (api/src/graph.rs),    *)
(*   - ProblemSpec::MAX_CAPACITY and the 64-bit cost arithmetic,           *)
(*   - the simulator runner and the analyze, solve, execute pipeline,      *)
(*   - the minimum-cost-flow contract of the solver.                       *)
(*                                                                         *)
(* Every value of the frame layer (LazyFrame, DataFrame, LazySlice, the    *)
(* Ok/Err of a Result) is a record [tag, plan]: tag names the enum variant *)
(* and plan is the polars logical plan, a sequence of <<step, argument>>   *)
(* pairs in postfix order.                                                 *)
(***************************************************************************)
EXTENDS Integers, Sequences, FiniteSets, TLC

\* Longest polars plan the model builds.
MaxPlan == 2
\* Number of insert calls made on the graph store in one behaviour.
MaxInserts == 2
\* Number of insert calls in the behaviours checked for progress.
MaxLiveInserts == 1
\* Most edges of a graph whose cost is summed.
MaxEdges == 2
\* Most rows of a node table handed to fabric.
MaxNodes == 2
\* Most NetworkGraphRow values constructed in one behaviour.
MaxRows == 2
\* Number of pipeline runs in one behaviour.
MaxRuns == 2
\* Most edges of a graph handed to the solver.
MaxArcs == 2

VARIABLES
    \* ---- LazyFrame harness ----
    frame,      \* the LazyFrame the caller holds
    fcall,      \* the last frame call: [op, self, arg, out]
    \* ---- in-memory graph store ----
    map,        \* NetworkGraphDB.map: the BTreeMap, a set of <<key, value>> entries
    readers,    \* tasks holding a read guard of the RwLock
    writer,     \* the task holding the write guard, or NoProc
    queue,      \* tasks waiting for the RwLock, in arrival order
    pc,         \* per task: "idle", "wait", "locked", "ret"
    call,       \* per task: the current (or last) store call and its arguments
    res,        \* per task: what the last completed call returned
    insRec,     \* history of insert calls: [graph, done, pred]
    writes,     \* history: the insert calls in the order they wrote the map
    seen,       \* per task: the inserts completed when its current get started
    \* ---- cost arithmetic of a graph's edges ----
    cost,       \* [edges, next, acc, exact, overflow]: the running 64-bit sum
    \* ---- fabric on a node table ----
    fab,        \* [nodes, problem, out, rows, done]: a node table and its fabric
    \* ---- NetworkGraphRow values ----
    rows,       \* the rows constructed so far: [id, key, value, arg], arg the key
                \* handed to try_new
    \* ---- one caller driving analyze, solve, execute ----
    pipe,       \* [run, stage, failed, graph, out, backend, dbCalls]
    \* ---- one caller of the solver ----
    sol,        \* [graph, problem, result, done]: a graph and what solve returned
    \* ---- the ModelClaim controller ----
    mc,         \* [obj, data, phase, last, work, released]: a ModelClaim object,
                \* the copy a reconcile pass was handed, and what the last pass did
    \* ---- the ModelStorageBinding controller ----
    msb,        \* [obj, data, phase, last]: a ModelStorageBinding object, the copy
                \* a reconcile pass was handed, and what the last pass did
    \* ---- AnsibleClient::spawn ----
    ans         \* [jobs, n, pc, job, last]: the Jobs and CronJobs of the namespace,
                \* the number of spawn calls, where the running call is, its
                \* AnsibleJob, and what the last call that returned did

frameVars == <<frame, fcall>>
storeVars == <<map, readers, writer, queue, pc, call, res, insRec, writes, seen>>
costVars == <<cost>>
fabVars == <<fab>>
\* The variables of the components added after the frame and the store
rowVars == <<rows>>
pipeVars == <<pipe>>
\* The lock and the tasks of the store, which the pipeline's caller leaves alone
lockVars == <<readers, writer, queue, pc, call, res, insRec, writes, seen>>
solVars == <<sol>>
claimVars == <<mc>>
\* The variables of the dash and kiss controllers
ctlVars == <<mc, msb, ans>>
\* The variables of the kubegraph components
graphVars == <<frame, fcall, map, readers, writer, queue, pc, call, res, insRec, writes,
               seen, cost, fab, rows, pipe, sol>>
laterVars == <<cost, fab, rows, pipe, sol, ctlVars>>
\* What the steps of one component leave alone
notCost == <<frameVars, storeVars, fabVars, rowVars, pipeVars, solVars, ctlVars>>
notFab == <<frameVars, storeVars, costVars, rowVars, pipeVars, solVars, ctlVars>>
notRows == <<frameVars, storeVars, costVars, fabVars, pipeVars, solVars, ctlVars>>
notPipe == <<frameVars, lockVars, costVars, fabVars, rowVars, solVars, ctlVars>>
notSol == <<frameVars, storeVars, costVars, fabVars, rowVars, pipeVars, ctlVars>>
notClaim == <<graphVars, msb, ans>>
notBinding == <<graphVars, mc, ans>>
notAnsible == <<graphVars, mc, msb>>
vars == <<frame, fcall, map, readers, writer, queue, pc, call, res, insRec, writes, seen,
          cost, fab, rows, pipe, sol, mc, msb, ans>>

-----------------------------------------------------------------------------
(* Values of the frame layer                                               *)

\* LazyFrame::Empty, the #[default] variant
Empty == [tag |-> "Empty", plan |-> <<>>]

\* LazyFrame::Polars(plan)
Polars(plan) == [tag |-> "Polars", plan |-> plan]

\* DataFrame::Empty
DataFrameEmpty == [tag |-> "DataFrame::Empty", plan |-> <<>>]

\* DataFrame::Polars(table): the table is named by the plan that computed it
DataFramePolars(plan) == [tag |-> "DataFrame::Polars", plan |-> plan]

\* LazySlice::Polars(expr)
LazySlice(expr) == [tag |-> "LazySlice", plan |-> <<expr>>]

\* Ok(()) of a Result<()>
OkUnit == [tag |-> "Ok", plan |-> <<>>]

\* Err(anyhow!(msg)) produced by bail!
Err(msg) == [tag |-> "Err", plan |-> << <<"bail", msg>> >>]

\* The raw ::pl::lazy::frame::LazyFrame returned by try_into_polars
RawPolars(plan) == [tag |-> "pl::LazyFrame", plan |-> plan]

IsErr(v) == v.tag = "Err"

\* Result of one call: the receiver afterwards and the returned value
Outcome(self, out) == [self |-> self, out |-> out]

-----------------------------------------------------------------------------
(* Inputs of the frame layer                                               *)

\* Column names, function names and alias keys
Names == {"a", "b"}

\* Materialized polars tables a frame can be built from
Tables == {"t1", "t2"}

\* GraphDataType
GraphDataTypes == {"Edge", "Node"}

\* Number values in halves: k stands for k/2
Numbers == 0 .. 3

\* Feature values
Features == BOOLEAN

\* A polars expression used as a column or filter operand
Exprs == {<<"col", n>> : n \in Names} \cup {<<"all", "">>}

\* impl From<DataFrame> for LazyFrame
FromDataFrame(value) ==
    IF value.tag = "DataFrame::Empty"
    THEN Empty
    ELSE Polars(value.plan)

\* The frames a caller starts from: the default one and lazy views of tables
InputFrames ==
    {Empty} \cup {FromDataFrame(DataFramePolars(<< <<"df", t>> >>)) : t \in Tables}

\* f64::round (half away from zero) followed by `as i64`, on a value k/2 >= 0
RoundHalves(k) == (k + 1) \div 2

\* impl IntoLazySlice for Number: into_polars
NumberIntoPolars(k) == <<"lit_i64", ToString(RoundHalves(k))>>

\* impl IntoLazySlice for Feature: into_polars
FeatureIntoPolars(b) == <<"lit_bool", IF b THEN "true" ELSE "false">>

-----------------------------------------------------------------------------
(* LazyFrame operations.  An operation on &self or &mut self yields        *)
(* Outcome(receiver afterwards, returned value); an operation that         *)
(* consumes self yields the returned value alone.                          *)

\* frame::polars::cast(df, ty, origin, problem)
polars_cast(plan, ty, origin, problem) ==
    plan \o << <<"cast_" \o ty, origin.capacity \o "->" \o problem.capacity>> >>

\* frame::polars::concat(a, b)
polars_concat(a, b) == Polars(a \o b \o << <<"concat", "">> >>)

\* LazyFrame::all(&self)
all(self) ==
    IF self.tag = "Empty"
    THEN Outcome(self, Err("cannot get all columns from empty lazyframe"))
    ELSE Outcome(self, LazySlice(<<"all", "">>))

\* LazyFrame::cast(self, ty, origin, problem)
cast(self, ty, origin, problem) ==
    IF self.tag = "Empty"
    THEN Empty
    ELSE Polars(polars_cast(self.plan, ty, origin, problem))

\* Mutant: the empty frame is refused like everywhere else
collectBail(self) ==
    IF self.tag = "Empty"
    THEN Err("cannot collect empty lazyframe")
    ELSE DataFramePolars(self.plan)

\* LazyFrame::collect(self)
collect(self) ==
    IF self.tag = "Empty"
    THEN DataFrameEmpty
    ELSE DataFramePolars(self.plan)

\* Mutant: an empty receiver wins over the other operand
concatEmptyWins(self, other) ==
    IF self.tag = "Empty"
    THEN Empty
    ELSE IF other.tag = "Empty"
    THEN self
    ELSE polars_concat(self.plan, other.plan)

\* LazyFrame::concat(self, other): the match arms in source order
concat(self, other) ==
    IF self.tag = "Empty" /\ other.tag = "Empty"
    THEN Empty
    ELSE IF self.tag = "Empty"
    THEN other
    ELSE IF other.tag = "Empty"
    THEN self
    ELSE polars_concat(self.plan, other.plan)

\* LazyFrame::get_column(&self, name)
get_column(self, name) ==
    IF self.tag = "Empty"
    THEN Outcome(self, Err("cannot get column from empty lazyframe"))
    ELSE Outcome(self, LazySlice(<<"col", name>>))

\* select_polars_edge_side(nodes, name, side), nested in LazyFrame::fabric
select_polars_edge_side(nodes, name, side) ==
    nodes \o << <<"select_side", side>> >>

\* Mutant: the capacity column is left to the nodes, no MAX_CAPACITY literal
fabricNoCapacity(self, problem) ==
    IF self.tag = "Empty"
    THEN Outcome(self, Err("cannot get fabric from empty lazyframe"))
    ELSE Outcome(self,
           Polars(select_polars_edge_side(self.plan, problem.name, problem.src)
                  \o select_polars_edge_side(self.plan, problem.name, problem.sink)
                  \o << <<"cross_join", "">> >>))

\* LazyFrame::fabric(&self, problem); problem.metadata gives name, src, sink, capacity
fabric(self, problem) ==
    IF self.tag = "Empty"
    THEN Outcome(self, Err("cannot get fabric from empty lazyframe"))
    ELSE Outcome(self,
           Polars(select_polars_edge_side(self.plan, problem.name, problem.src)
                  \o select_polars_edge_side(self.plan, problem.name, problem.sink)
                  \o << <<"cross_join", "">>,
                        <<"with_column_max_capacity", problem.capacity>> >>))

\* Mutant: the empty frame is turned into a polars frame holding the alias
aliasSilent(self, key, name) ==
    Outcome(Polars(self.plan \o << <<"with_column_lit_" \o name, key>> >>), OkUnit)

\* LazyFrame::alias(&mut self, key, metadata)
alias(self, key, name) ==
    IF self.tag = "Empty"
    THEN Outcome(self, Err("cannot make an alias to empty lazyframe"))
    ELSE Outcome(Polars(self.plan \o << <<"with_column_lit_" \o name, key>> >>), OkUnit)

\* LazyFrame::insert_column(&mut self, name, column)
insert_column(self, name, column) ==
    IF self.tag = "Empty"
    THEN Outcome(self, Err("cannot fill column into empty lazyframe"))
    ELSE Outcome(Polars(self.plan \o << <<"with_column_" \o column.plan[1][1]
                                           \o "_" \o column.plan[1][2], name>> >>),
                 OkUnit)

\* LazyFrame::apply_filter(&mut self, filter)
apply_filter(self, filter) ==
    IF self.tag = "Empty"
    THEN Outcome(self, Err("cannot apply filter into empty lazyframe"))
    ELSE Outcome(Polars(self.plan \o << <<"filter_" \o filter.plan[1][1],
                                          filter.plan[1][2]>> >>),
                 OkUnit)

\* LazyFrame::fill_column_with_feature(&mut self, name, value)
fill_column_with_feature(self, name, value) ==
    IF self.tag = "Empty"
    THEN Outcome(self, Err("cannot fill column with feature into empty lazyframe"))
    ELSE Outcome(Polars(self.plan \o << <<"with_column_" \o FeatureIntoPolars(value)[1]
                                           \o "_" \o FeatureIntoPolars(value)[2], name>> >>),
                 OkUnit)

\* LazyFrame::fill_column_with_value(&mut self, name, value)
fill_column_with_value(self, name, value) ==
    IF self.tag = "Empty"
    THEN Outcome(self, Err("cannot fill column with name into empty lazyframe"))
    ELSE Outcome(Polars(self.plan \o << <<"with_column_" \o NumberIntoPolars(value)[1]
                                           \o "_" \o NumberIntoPolars(value)[2], name>> >>),
                 OkUnit)

\* LazyFrame::try_into_polars(self); pl::LazyFrame::default() is the empty plan
try_into_polars(self) ==
    IF self.tag = "Empty"
    THEN RawPolars(<<>>)
    ELSE RawPolars(self.plan)

\* Mutant: the literal is built without looking at the frame
try_into_lazy_sliceSilent(value, df) == Outcome(df, LazySlice(NumberIntoPolars(value)))

\* IntoLazySlice::try_into_lazy_slice(self, df) for a Number
try_into_lazy_slice(value, df) ==
    IF df.tag = "Empty"
    THEN Outcome(df, Err("cannot get slice from empty lazyframe"))
    ELSE Outcome(df, LazySlice(NumberIntoPolars(value)))

-----------------------------------------------------------------------------
(* Unsigned integers of any width: little-endian sequences of base-256     *)
(* digits without leading zero digits, so that equal numbers are equal     *)
(* sequences.  The model checker's own integers are 32 bits wide.          *)

Radix == 2 ^ 8

\* The digits of a small natural number
RECURSIVE Big(_)
Big(k) == IF k = 0 THEN <<>> ELSE <<k % Radix>> \o Big(k \div Radix)

\* Drop the zero digits at the high end
RECURSIVE Trim(_)
Trim(a) ==
    IF a = <<>> THEN <<>>
    ELSE IF a[Len(a)] = 0 THEN Trim(SubSeq(a, 1, Len(a) - 1))
    ELSE a

RECURSIVE AddCarry(_, _, _)
AddCarry(a, b, c) ==
    IF a = <<>> /\ b = <<>>
    THEN Big(c)
    ELSE LET x == IF a = <<>> THEN 0 ELSE a[1]
             y == IF b = <<>> THEN 0 ELSE b[1]
             t == x + y + c
         IN  <<t % Radix>> \o AddCarry(IF a = <<>> THEN <<>> ELSE Tail(a),
                                       IF b = <<>> THEN <<>> ELSE Tail(b),
                                       t \div Radix)

\* a + b
BigAdd(a, b) == Trim(AddCarry(a, b, 0))

RECURSIVE MulDigit(_, _, _)
MulDigit(a, d, c) ==
    IF a = <<>>
    THEN Big(c)
    ELSE LET t == a[1] * d + c
         IN  <<t % Radix>> \o MulDigit(Tail(a), d, t \div Radix)

\* a * b
RECURSIVE BigMul(_, _)
BigMul(a, b) ==
    IF b = <<>>
    THEN <<>>
    ELSE BigAdd(Trim(MulDigit(a, b[1], 0)), Trim(<<0>> \o BigMul(a, Tail(b))))

\* a <= b
RECURSIVE BigLeq(_, _)
BigLeq(a, b) ==
    IF Len(a) # Len(b) THEN Len(a) < Len(b)
    ELSE IF a = <<>> THEN TRUE
    ELSE IF a[Len(a)] # b[Len(b)] THEN a[Len(a)] < b[Len(b)]
    ELSE BigLeq(SubSeq(a, 1, Len(a) - 1), SubSeq(b, 1, Len(b) - 1))

\* a >> (8 * bytes)
ShrBytes(a, bytes) == SubSeq(a, bytes + 1, Len(a))

\* a >> bits, for a number of bits below 8
ShrBits(a, bits) ==
    Trim([i \in 1 .. Len(a) |->
            (a[i] \div (2 ^ bits))
            + (IF i < Len(a) THEN (a[i + 1] % (2 ^ bits)) * (2 ^ (8 - bits)) ELSE 0)])

\* The low 64 bits of a
Wrap64(a) == Trim(SubSeq(a, 1, IF Len(a) < 8 THEN Len(a) ELSE 8))

\* u64::MAX
U64Max == [i \in 1 .. 8 |-> Radix - 1]

\* i64::MAX
I64Max == [i \in 1 .. 8 |-> IF i = 8 THEN (Radix \div 2) - 1 ELSE Radix - 1]

\* 2^31 and 2^32
Pow31 == BigMul(Big(2 ^ 16), Big(2 ^ 15))

Pow32 == BigMul(Big(2 ^ 16), Big(2 ^ 16))

\* The value fits a signed 64-bit integer
FitsI64(a) == BigLeq(a, I64Max)

\* Mutant: the shift is one bit short
MAX_CAPACITY_Shr31 == ShrBits(ShrBytes(U64Max, 3), 7)

\* ProblemSpec::MAX_CAPACITY = u64::MAX >> 32
MAX_CAPACITY == ShrBytes(U64Max, 4)

-----------------------------------------------------------------------------
(* The cost of a graph, capacity * unit_cost summed over its edges in      *)
(* signed 64-bit arithmetic                                                *)

\* Edge capacities, none above MAX_CAPACITY
Capacities == {Big(0), Big(1), Big(20), MAX_CAPACITY}

\* Unit costs
UnitCosts == {Big(0), Big(1), Big(5), Pow31, BigAdd(Pow31, Big(1)), BigAdd(Pow32, Big(4))}

EdgeCosts == [capacity : Capacities, unit_cost : UnitCosts]

\* The sum of the sequence of numbers
RECURSIVE BigSum(_)
BigSum(xs) == IF xs = <<>> THEN <<>> ELSE BigAdd(xs[1], BigSum(Tail(xs)))

CostStart(edges) ==
    [edges |-> edges, next |-> 1, acc |-> <<>>, exact |-> <<>>, overflow |-> FALSE]

CostInit == cost = CostStart(<<>>)

\* Another graph: the sum starts over
CostNew ==
    /\ cost.edges # <<>>
    /\ cost' = CostStart(<<>>)
    /\ UNCHANGED notCost

\* The graph gets one more edge, before the summing starts
CostEdge ==
    /\ cost.next = 1
    /\ Len(cost.edges) < MaxEdges
    /\ \E e \in EdgeCosts : cost' = CostStart(Append(cost.edges, e))
    /\ UNCHANGED notCost

\* acc += capacity * unit_cost for the next edge, in 64 bits
CostAdd ==
    /\ cost.next <= Len(cost.edges)
    /\ LET e == cost.edges[cost.next]
           product == BigMul(e.capacity, e.unit_cost)
           sum == BigAdd(cost.acc, Wrap64(product))
       IN  cost' = [cost EXCEPT !.next = @ + 1,
                                !.acc = Wrap64(sum),
                                !.exact = BigAdd(@, product),
                                !.overflow = @ \/ ~FitsI64(product) \/ ~FitsI64(sum)]
    /\ UNCHANGED notCost

CostNext == CostNew \/ CostEdge \/ CostAdd

-----------------------------------------------------------------------------
(* The rows a fabric plan computes from a node table                       *)
(*                                                                         *)
(* A row is a set of <<column, value>> pairs, a table a sequence of rows.  *)

\* dsl::col(name).alias(side) and dsl::all().exclude([name]).name().prefix(side.)
select_edge_side_row(row, name, side) ==
    {<<IF p[1] = name THEN side ELSE side \o "." \o p[1], p[2]>> : p \in row}

\* LazyFrame::select of select_polars_edge_side, row by row
select_edge_side_rows(table, name, side) ==
    [i \in 1 .. Len(table) |-> select_edge_side_row(table[i], name, side)]

\* LazyFrame::cross_join: every row of the left with every row of the right,
\* the left row varying slowest
cross_join(left, right) ==
    [k \in 1 .. Len(left) * Len(right) |->
        left[((k - 1) \div Len(right)) + 1] \cup right[((k - 1) % Len(right)) + 1]]

\* LazyFrame::with_column(dsl::lit(value).alias(column)): the column is added,
\* replacing a column of the same name
with_column_lit(table, column, value) ==
    [i \in 1 .. Len(table) |-> {p \in table[i] : p[1] # column} \cup {<<column, value>>}]

\* One step of a plan on the stack of intermediate tables; `data` is the
\* table the plan scans and `name` the key column of the problem metadata
PlanStep(stack, step, name, data) ==
    LET n == Len(stack)
    IN  IF step[1] = "df" THEN Append(stack, data)
        ELSE IF step[1] = "select_side" /\ n >= 1
        THEN [stack EXCEPT ![n] = select_edge_side_rows(@, name, step[2])]
        ELSE IF step[1] = "cross_join" /\ n >= 2
        THEN Append(SubSeq(stack, 1, n - 2), cross_join(stack[n - 1], stack[n]))
        ELSE IF step[1] = "with_column_max_capacity" /\ n >= 1
        THEN [stack EXCEPT ![n] = with_column_lit(@, step[2], MAX_CAPACITY)]
        ELSE stack

RECURSIVE PlanStack(_, _, _, _)
PlanStack(plan, stack, name, data) ==
    IF plan = <<>> THEN stack
    ELSE PlanStack(Tail(plan), PlanStep(stack, Head(plan), name, data), name, data)

\* The table a collected plan holds
PlanRows(plan, name, data) ==
    LET stack == PlanStack(plan, <<>>, name, data)
    IN  IF stack = <<>> THEN <<>> ELSE stack[Len(stack)]

\* The cell of a row under a column
HasCell(row, column, value) == <<column, value>> \in row

HasColumn(row, column) == \E p \in row : p[1] = column

\* No argument, no result
NoArg == [tag |-> "-", plan |-> <<>>]

\* The problem metadata handed to fabric (GraphMetadata column names)
Problems ==
    {[name |-> "name", src |-> "src", sink |-> "sink", capacity |-> c] : c \in Names}

\* Node rows: the key column and the node's own capacity under each name the
\* problem metadata may give the capacity column
NodeNames == {Big(0), Big(1)}
NodeCapacities == {Big(0), Big(20), Pow32}
NodeRows ==
    {{<<"name", n>>, <<"a", c>>, <<"b", c>>} : n \in NodeNames, c \in NodeCapacities}

NoProblem == [name |-> "", src |-> "", sink |-> "", capacity |-> ""]

FabStart == [nodes |-> <<>>, problem |-> NoProblem, out |-> NoArg, rows |-> <<>>, done |-> FALSE]

FabInit == fab = FabStart

\* Another node table
FabNew ==
    /\ fab.nodes # <<>> \/ fab.done
    /\ fab' = FabStart
    /\ UNCHANGED notFab

\* One more node row in the table
FabNode ==
    /\ ~fab.done
    /\ Len(fab.nodes) < MaxNodes
    /\ \E row \in NodeRows : fab' = [fab EXCEPT !.nodes = Append(@, row)]
    /\ UNCHANGED notFab

\* fabric on the lazy view of the node table, then collect
FabFabric ==
    /\ ~fab.done
    /\ \E p \in Problems :
          LET nodes == FromDataFrame(DataFramePolars(<< <<"df", "t1">> >>))
              r == fabric(nodes, p)
              df == collect(r.out)
          IN  fab' = [fab EXCEPT !.problem = p,
                                 !.out = r.out,
                                 !.rows = PlanRows(df.plan, p.name, fab.nodes),
                                 !.done = TRUE]
    /\ UNCHANGED notFab

FabNext == FabNew \/ FabNode \/ FabFabric

-----------------------------------------------------------------------------
(* NetworkGraphRow and its content-addressed id                            *)

\* NetworkNodeKey { kind, name, namespace }
NetworkNodeKey(kind, name, namespace) == [kind |-> kind, name |-> name, namespace |-> namespace]

NodeKeys == {NetworkNodeKey("node", n, "default") : n \in {"a", "b"}}

\* NetworkEdgeKey { interval_ms, link, sink, src }
NetworkEdgeKeys ==
    [interval_ms : {1, 2},
     link : {NetworkNodeKey("link", "a", "default")},
     sink : {NetworkNodeKey("node", "b", "default")},
     src : NodeKeys]

\* NetworkValue(u64)
NetworkValues == {0, 1}

\* with_prefix!: the fields of a node key, flattened under a prefix
SerializeNodeKey(prefix, node) ==
    << <<prefix \o "kind", node.kind>>,
       <<prefix \o "name", node.name>>,
       <<prefix \o "namespace", node.namespace>> >>

\* serde_json::to_vec(&key): the fields in declaration order, interval_ms
\* renamed to le, the node keys flattened under link_, sink_ and src_
SerializeKey(key) ==
    << <<"le", key.interval_ms>> >>
    \o SerializeNodeKey("link_", key.link)
    \o SerializeNodeKey("sink_", key.sink)
    \o SerializeNodeKey("src_", key.src)

\* The bytes a serialized field contributes to the digest
FieldCode(field) ==
    LET nameCode == CASE field[1] = "le" -> 1
                      [] field[1] \in {"link_kind", "sink_kind", "src_kind"} -> 2
                      [] field[1] \in {"link_name", "sink_name", "src_name"} -> 3
                      [] OTHER -> 4
        prefixCode == CASE field[1] \in {"link_kind", "link_name", "link_namespace"} -> 16
                        [] field[1] \in {"sink_kind", "sink_name", "sink_namespace"} -> 32
                        [] field[1] \in {"src_kind", "src_name", "src_namespace"} -> 48
                        [] OTHER -> 0
        valueCode == CASE field[1] = "le" -> field[2]
                       [] field[2] = "a" -> 97
                       [] field[2] = "b" -> 98
                       [] field[2] = "node" -> 110
                       [] field[2] = "link" -> 108
                       [] OTHER -> 100
    IN  (nameCode + prefixCode) * 256 + valueCode

DigestBits == 16

\* Sha256::digest, narrowed to DigestBits bits: each field is mixed into the
\* state in order
RECURSIVE Digest(_, _)
Digest(bytes, h) ==
    IF bytes = <<>> THEN h
    ELSE Digest(Tail(bytes), (h * 31 + FieldCode(Head(bytes))) % (2 ^ DigestBits))

HexDigit(d) == SubSeq(<<"0", "1", "2", "3", "4", "5", "6", "7",
                        "8", "9", "a", "b", "c", "d", "e", "f">>, d + 1, d + 1)

\* format!("{hash:x}"): two lowercase hex digits per byte, high byte first
RECURSIVE LowerHex(_, _)
LowerHex(hash, digits) ==
    IF digits = 0 THEN <<>>
    ELSE LowerHex(hash \div 16, digits - 1) \o HexDigit(hash % 16)

\* Mutant: the value is hashed along with the key
try_newHashesValue(key, value) ==
    [id |-> LowerHex(Digest(SerializeKey(key) \o << <<"le", value>> >>, 7), DigestBits \div 4),
     key |-> key,
     value |-> value]

\* NetworkGraphRow::try_new(key, value)
try_new(key, value) ==
    [id |-> LowerHex(Digest(SerializeKey(key), 7), DigestBits \div 4),
     key |-> key,
     value |-> value]

\* NetworkGraphRow::id(&self)
id(row) == row.id

RowsInit == rows = <<>>

\* A caller constructs a row
RowTryNew ==
    /\ Len(rows) < MaxRows
    /\ \E key \in NetworkEdgeKeys, value \in NetworkValues :
          LET row == try_new(key, value)
          IN  rows' = Append(rows, [id |-> row.id, key |-> row.key, value |-> row.value,
                                    arg |-> key])
    /\ UNCHANGED notRows

\* A caller assigns the public field `value` of a row it holds
RowSetValue ==
    /\ \E i \in 1 .. Len(rows), value \in NetworkValues :
          /\ value # rows[i].value
          /\ rows' = [rows EXCEPT ![i].value = value]
    /\ UNCHANGED notRows

\* A caller assigns the public field `key` of a row it holds
RowSetKey ==
    /\ \E i \in 1 .. Len(rows), key \in NetworkEdgeKeys :
          /\ key # rows[i].key
          /\ rows' = [rows EXCEPT ![i].key = key]
    /\ UNCHANGED notRows

RowsNext == RowTryNew \/ RowSetValue \/ RowSetKey

-----------------------------------------------------------------------------
(* A caller driving one LazyFrame through its operations                   *)

FCall(op, self, other, name, out) ==
    [op |-> op, self |-> self, other |-> other, name |-> name, out |-> out]

\* A polars plan may still be extended
Grows(f) == f.tag = "Empty" \/ Len(f.plan) < MaxPlan

FrameInit ==
    /\ frame = Empty
    /\ fcall = FCall("new", Empty, NoArg, "", Empty)

\* LazyFrame::default() or LazyFrame::from(table)
FrameNew ==
    /\ \E f \in InputFrames :
         /\ frame' = f
         /\ fcall' = FCall("new", frame, NoArg, "", f)
    /\ UNCHANGED <<storeVars, laterVars>>

\* A call on &self or &mut self: the receiver is what the call leaves behind
FrameRef(op, other, name, outcome) ==
    /\ frame' = outcome.self
    /\ fcall' = FCall(op, frame, other, name, outcome.out)
    /\ UNCHANGED <<storeVars, laterVars>>

FrameAll == FrameRef("all", NoArg, "", all(frame))

FrameGetColumn ==
    \E n \in Names : FrameRef("get_column", NoArg, n, get_column(frame, n))

FrameFabric ==
    \E p \in Problems : FrameRef("fabric", NoArg, p.capacity, fabric(frame, p))

FrameAlias ==
    /\ Grows(frame)
    /\ \E k \in Names, n \in Names : FrameRef("alias", NoArg, k, alias(frame, k, n))

FrameInsertColumn ==
    /\ Grows(frame)
    /\ \E n \in Names, e \in Exprs :
         FrameRef("insert_column", LazySlice(e), n, insert_column(frame, n, LazySlice(e)))

FrameApplyFilter ==
    /\ Grows(frame)
    /\ \E e \in Exprs :
         FrameRef("apply_filter", LazySlice(e), "", apply_filter(frame, LazySlice(e)))

FrameFillColumnWithFeature ==
    /\ Grows(frame)
    /\ \E n \in Names, v \in Features :
         FrameRef("fill_column_with_feature", NoArg, n,
                  fill_column_with_feature(frame, n, v))

FrameFillColumnWithValue ==
    /\ Grows(frame)
    /\ \E n \in Names, v \in Numbers :
         FrameRef("fill_column_with_value", NoArg, n,
                  fill_column_with_value(frame, n, v))

FrameTryIntoLazySlice ==
    \E v \in Numbers :
        FrameRef("try_into_lazy_slice", NoArg, "", try_into_lazy_slice(v, frame))

\* frame = frame.cast(ty, origin, problem)
FrameCast ==
    /\ Grows(frame)
    /\ \E ty \in GraphDataTypes, origin \in Problems, problem \in Problems :
         /\ frame' = cast(frame, ty, origin, problem)
         /\ fcall' = FCall("cast", frame, NoArg, ty, cast(frame, ty, origin, problem))
    /\ UNCHANGED <<storeVars, laterVars>>

\* table = frame.collect().await?; frame = table.into()
FrameCollect ==
    /\ frame' = FromDataFrame(collect(frame))
    /\ fcall' = FCall("collect", frame, NoArg, "", collect(frame))
    /\ UNCHANGED <<storeVars, laterVars>>

\* frame = frame.concat(other)? and frame = other.concat(frame)?
FrameConcat ==
    /\ Grows(frame)
    /\ \E other \in InputFrames :
         \/ /\ frame' = concat(frame, other)
            /\ fcall' = FCall("concat", frame, other, "self", concat(frame, other))
         \/ /\ frame' = concat(other, frame)
            /\ fcall' = FCall("concat", frame, other, "other", concat(other, frame))
    /\ UNCHANGED <<storeVars, laterVars>>

\* frame = LazyFrame::Polars(frame.try_into_polars()?)
FrameTryIntoPolars ==
    /\ frame' = Polars(try_into_polars(frame).plan)
    /\ fcall' = FCall("try_into_polars", frame, NoArg, "", try_into_polars(frame))
    /\ UNCHANGED <<storeVars, laterVars>>

FrameNext ==
    \/ FrameNew
    \/ FrameAll
    \/ FrameGetColumn
    \/ FrameFabric
    \/ FrameAlias
    \/ FrameInsertColumn
    \/ FrameApplyFilter
    \/ FrameFillColumnWithFeature
    \/ FrameFillColumnWithValue
    \/ FrameTryIntoLazySlice
    \/ FrameCast
    \/ FrameCollect
    \/ FrameConcat
    \/ FrameTryIntoPolars

-----------------------------------------------------------------------------
(* The in-memory graph store: values                                       *)

\* Tasks sharing one NetworkGraphDB (it is Clone over an Arc)
Procs == {"t1", "t2"}

NoProc == "-"

\* GraphScope values, in their Ord order
ScopeSeq ==
    << [namespace |-> "ns", name |-> "a"], [namespace |-> "ns", name |-> "b"] >>

Scopes == {ScopeSeq[i] : i \in 1 .. Len(ScopeSeq)}

NoScope == [namespace |-> "", name |-> ""]

\* Position of a scope in the Ord order
Rank(s) == CHOOSE i \in 1 .. Len(ScopeSeq) : ScopeSeq[i] = s

\* Graph { scope, data }
Graph(scope, data) == [scope |-> scope, data |-> data]

NoGraph == Graph(NoScope, Empty)

\* The frames producers put into graphs
StoreFrames == {Empty, FromDataFrame(DataFramePolars(<< <<"df", "t1">> >>))}

Graphs == {Graph(s, d) : s \in Scopes, d \in StoreFrames}

\* Option<&GraphFilter>: None, or a predicate on the scope
NoFilter == [some |-> FALSE, scopes |-> {}]

Filters ==
    {NoFilter} \cup {[some |-> TRUE, scopes |-> S] : S \in {{}, {ScopeSeq[1]}}}

\* GraphFilter::contains(&self, key)
contains(filter, key) == key \in filter.scopes

\* A graph as a caller holds it: a value of its own, or a reference into the map
Owned(g) == [own |-> TRUE, key |-> NoScope, val |-> g]

Ref(k) == [own |-> FALSE, key |-> k, val |-> NoGraph]

\* The graph behind a handle, with the map being m
DerefIn(m, h) ==
    IF h.own
    THEN h.val
    ELSE IF \E e \in m : e[1] = h.key
    THEN (CHOOSE e \in m : e[1] = h.key)[2]
    ELSE NoGraph

\* BTreeMap::get(&self, key) -> Option<&V>
BTreeMapGet(m, k) == IF \E e \in m : e[1] = k THEN <<Ref(k)>> ELSE <<>>

\* Mutant: entry(key).or_insert(value), an existing value is kept
BTreeMapInsertKeep(m, k, v) == IF \E e \in m : e[1] = k THEN m ELSE m \cup {<<k, v>>}

\* Mutant: the entry is added without replacing the one of an equal key
BTreeMapInsertDup(m, k, v) == m \cup {<<k, v>>}

\* Mutant: the map is rebuilt from the new entry alone
BTreeMapInsertClear(m, k, v) == {<<k, v>>}

\* BTreeMap::insert(&mut self, key, value): replaces the value of an equal key
BTreeMapInsert(m, k, v) == {e \in m : e[1] # k} \cup {<<k, v>>}

\* BTreeMap::iter(&self): the entries in key order
RECURSIVE BTreeMapIter(_)
BTreeMapIter(m) ==
    IF m = {}
    THEN <<>>
    ELSE LET e == CHOOSE x \in m : \A y \in m : Rank(x[1]) <= Rank(y[1])
         IN  <<e>> \o BTreeMapIter(m \ {e})

\* Mutant: the reference itself is handed out (a shared handle, not a copy)
clonedAlias(m, ref) == ref

\* Option<&V>::cloned and V::clone on a stored graph
cloned(m, ref) == Owned(DerefIn(m, ref))

\* What a call returned
Res(tag, items) == [tag |-> tag, items |-> items]

NoCall == [name |-> "none", scope |-> NoScope, graph |-> NoGraph, filter |-> NoFilter, id |-> 0]

\* The insert calls that have returned
Done == {i \in 1 .. Len(insRec) : insRec[i].done}

\* NetworkGraphDB::get: the body under the read guard
get(m, scope) ==
    LET found == BTreeMapGet(m, scope)
    IN  IF found = <<>>
        THEN Res("None", <<>>)
        ELSE Res("Some", <<cloned(m, found[1])>>)

\* Mutant: an upsert that merges the new frame into the stored one
insertMerge(m, graph) ==
    LET old == DerefIn(m, Ref(graph.scope))
    IN  BTreeMapInsert(m, graph.scope,
                       IF old = NoGraph THEN graph
                       ELSE Graph(graph.scope, concat(old.data, graph.data)))

\* NetworkGraphDB::insert: the body under the write guard
insert(m, graph) == BTreeMapInsert(m, graph.scope, graph)

\* Mutant: unwrap_or(false), no filter lists nothing
listUnwrapOrFalse(m, filter) ==
    LET kept == SelectSeq(BTreeMapIter(m),
                          LAMBDA e : IF filter.some THEN contains(filter, e[1]) ELSE FALSE)
    IN  Res("Vec", [i \in 1 .. Len(kept) |-> cloned(m, Ref(kept[i][1]))])

\* NetworkGraphDB::list: the body under the read guard
list(m, filter) ==
    LET kept == SelectSeq(BTreeMapIter(m),
                          LAMBDA e : IF filter.some THEN contains(filter, e[1]) ELSE TRUE)
    IN  Res("Vec", [i \in 1 .. Len(kept) |-> cloned(m, Ref(kept[i][1]))])

-----------------------------------------------------------------------------
(* The in-memory graph store: tasks calling get, insert, list and close    *)

StoreInit ==
    /\ map = {}
    /\ readers = {}
    /\ writer = NoProc
    /\ queue = <<>>
    /\ pc = [p \in Procs |-> "idle"]
    /\ call = [p \in Procs |-> NoCall]
    /\ res = [p \in Procs |-> Res("Ok", <<>>)]
    /\ insRec = <<>>
    /\ writes = <<>>
    /\ seen = [p \in Procs |-> {}]

\* A call that takes the lock: the task queues for it (self.map.read()/write())
Enter(p, c) ==
    /\ pc[p] = "idle"
    /\ pc' = [pc EXCEPT ![p] = "wait"]
    /\ call' = [call EXCEPT ![p] = c]
    /\ res' = [res EXCEPT ![p] = Res("Pending", <<>>)]
    /\ seen' = [seen EXCEPT ![p] = IF c.name = "get" THEN Done ELSE {}]
    /\ queue' = Append(queue, p)
    /\ UNCHANGED <<map, readers, writer, writes>>

\* db.get(&scope) is called
CallGet(p) ==
    /\ \E s \in Scopes : Enter(p, [NoCall EXCEPT !.name = "get", !.scope = s])
    /\ UNCHANGED insRec
    /\ UNCHANGED <<frameVars, laterVars>>

\* db.insert(graph) is called
CallInsert(p) ==
    /\ Len(insRec) < MaxInserts
    /\ \E g \in Graphs :
         /\ Enter(p, [NoCall EXCEPT !.name = "insert", !.graph = g,
                                    !.id = Len(insRec) + 1])
         /\ insRec' = Append(insRec, [graph |-> g, done |-> FALSE, pred |-> Done])
    /\ UNCHANGED <<frameVars, laterVars>>

\* db.list(filter) is called
CallList(p) ==
    /\ \E f \in Filters : Enter(p, [NoCall EXCEPT !.name = "list", !.filter = f])
    /\ UNCHANGED insRec
    /\ UNCHANGED <<frameVars, laterVars>>

\* tokio RwLock::read() resolves: first in line and no writer inside
AcquireRead(p) ==
    /\ pc[p] = "wait"
    /\ call[p].name \in {"get", "list"}
    /\ queue # <<>> /\ Head(queue) = p
    /\ writer = NoProc
    /\ readers' = readers \cup {p}
    /\ queue' = Tail(queue)
    /\ pc' = [pc EXCEPT ![p] = "locked"]
    /\ UNCHANGED <<map, writer, call, res, insRec, writes, seen>>
    /\ UNCHANGED <<frameVars, laterVars>>

\* Mutant: the write guard is granted while read guards are out
AcquireWriteAmongReaders(p) ==
    /\ pc[p] = "wait"
    /\ call[p].name = "insert"
    /\ queue # <<>> /\ Head(queue) = p
    /\ writer = NoProc
    /\ writer' = p
    /\ queue' = Tail(queue)
    /\ pc' = [pc EXCEPT ![p] = "locked"]
    /\ UNCHANGED <<map, readers, call, res, insRec, writes, seen>>
    /\ UNCHANGED <<frameVars, laterVars>>

\* tokio RwLock::write() resolves: first in line and nobody inside
AcquireWrite(p) ==
    /\ pc[p] = "wait"
    /\ call[p].name = "insert"
    /\ queue # <<>> /\ Head(queue) = p
    /\ writer = NoProc
    /\ readers = {}
    /\ writer' = p
    /\ queue' = Tail(queue)
    /\ pc' = [pc EXCEPT ![p] = "locked"]
    /\ UNCHANGED <<map, readers, call, res, insRec, writes, seen>>
    /\ UNCHANGED <<frameVars, laterVars>>

\* Mutant: the read guard is kept by the caller along with the result
GetReadKeepsGuard(p) ==
    /\ pc[p] = "locked"
    /\ call[p].name = "get"
    /\ res' = [res EXCEPT ![p] = get(map, call[p].scope)]
    /\ pc' = [pc EXCEPT ![p] = "idle"]
    /\ UNCHANGED <<map, readers, writer, queue, call, insRec, writes, seen>>
    /\ UNCHANGED <<frameVars, laterVars>>

\* get: look the scope up, clone, drop the read guard, return
GetRead(p) ==
    /\ pc[p] = "locked"
    /\ call[p].name = "get"
    /\ res' = [res EXCEPT ![p] = get(map, call[p].scope)]
    /\ readers' = readers \ {p}
    /\ pc' = [pc EXCEPT ![p] = "idle"]
    /\ UNCHANGED <<map, writer, queue, call, insRec, writes, seen>>
    /\ UNCHANGED <<frameVars, laterVars>>

\* list: iterate, filter, clone, collect, drop the read guard, return
ListRead(p) ==
    /\ pc[p] = "locked"
    /\ call[p].name = "list"
    /\ res' = [res EXCEPT ![p] = list(map, call[p].filter)]
    /\ readers' = readers \ {p}
    /\ pc' = [pc EXCEPT ![p] = "idle"]
    /\ UNCHANGED <<map, writer, queue, call, insRec, writes, seen>>
    /\ UNCHANGED <<frameVars, laterVars>>

\* insert: map.insert(graph.scope.clone(), graph), then the write guard drops
InsertWrite(p) ==
    /\ pc[p] = "locked"
    /\ call[p].name = "insert"
    /\ map' = insert(map, call[p].graph)
    /\ writes' = Append(writes, call[p].id)
    /\ writer' = NoProc
    /\ pc' = [pc EXCEPT ![p] = "ret"]
    /\ UNCHANGED <<readers, queue, call, res, insRec, seen>>
    /\ UNCHANGED <<frameVars, laterVars>>

\* insert: Ok(()) reaches the caller
InsertReturn(p) ==
    /\ pc[p] = "ret"
    /\ insRec' = [insRec EXCEPT ![call[p].id].done = TRUE]
    /\ res' = [res EXCEPT ![p] = Res("Ok", <<>>)]
    /\ pc' = [pc EXCEPT ![p] = "idle"]
    /\ UNCHANGED <<map, readers, writer, queue, call, writes, seen>>
    /\ UNCHANGED <<frameVars, laterVars>>

\* db.close(): logs and returns Ok(()) without touching the lock
Close(p) ==
    /\ pc[p] = "idle"
    /\ call' = [call EXCEPT ![p] = [NoCall EXCEPT !.name = "close"]]
    /\ res' = [res EXCEPT ![p] = Res("Ok", <<>>)]
    /\ seen' = [seen EXCEPT ![p] = {}]
    /\ UNCHANGED <<map, readers, writer, queue, pc, insRec, writes>>
    /\ UNCHANGED <<frameVars, laterVars>>

\* The caller changes a graph as it was handed out: graph.data.alias(key, metadata)
CallerAlias(p) ==
    /\ pc[p] = "idle"
    /\ \E i \in 1 .. Len(res[p].items) :
         LET h == res[p].items[i]
             g == DerefIn(map, h)
             d == alias(g.data, "a", "b").self
         IN  /\ g.data \in StoreFrames
             /\ d # g.data
             /\ IF h.own
                THEN /\ res' = [res EXCEPT ![p].items[i].val.data = d]
                     /\ map' = map
                ELSE /\ map' = {IF e[1] = h.key THEN <<e[1], [e[2] EXCEPT !.data = d]>> ELSE e
                                 : e \in map}
                     /\ res' = res
    /\ UNCHANGED <<readers, writer, queue, pc, call, insRec, writes, seen>>
    /\ UNCHANGED <<frameVars, laterVars>>

StoreNext ==
    \E p \in Procs :
        \/ CallGet(p)
        \/ CallInsert(p)
        \/ CallList(p)
        \/ AcquireRead(p)
        \/ AcquireWrite(p)
        \/ GetRead(p)
        \/ ListRead(p)
        \/ InsertWrite(p)
        \/ InsertReturn(p)
        \/ Close(p)
        \/ CallerAlias(p)

-----------------------------------------------------------------------------
(* The pipeline: analyze, solve, execute                                   *)

\* GraphData { edges, nodes }
GraphData(edges, nodes) == [edges |-> edges, nodes |-> nodes]

GraphDatas == {GraphData(e, n) : e \in InputFrames, n \in InputFrames}

\* What a call of execute did: the store afterwards, the returned Result,
\* whether the backend execution step was entered, the store calls made
Executed(db, out, backend, calls) ==
    [db |-> db, out |-> out, backend |-> backend, calls |-> calls]

\* How the backend execution ends, and the scope it writes back under
Backends == [ok : BOOLEAN, scope : Scopes]

\* NetworkRunner::execute of the polars backend (runner/simulator/src/polars.rs):
\* a finished simulation writes the graph back into the store with one insert,
\* a failed one writes nothing
polars_execute(graph_db, graph, backend) ==
    IF backend.ok
    THEN Executed(insert(graph_db, Graph(backend.scope, Polars(graph.edges.plan))),
                  OkUnit, TRUE, 1)
    ELSE Executed(graph_db, Err("simulation failed"), TRUE, 0)

\* Mutant: only the edges are tested for the Empty variant
executeEdgesOnly(graph_db, graph, backend) ==
    IF graph.edges.tag = "Empty"
    THEN Executed(graph_db, Err("cannot execute simulator runner with empty graph"), FALSE, 0)
    ELSE polars_execute(graph_db,
                        GraphData(RawPolars(graph.edges.plan), RawPolars(graph.nodes.plan)),
                        backend)

\* Mutant: the graph is written to the store before the variants are matched
executeStoresFirst(graph_db, graph, backend) ==
    LET stored == insert(graph_db, Graph(backend.scope, graph.edges))
    IN  IF graph.edges.tag = "Empty" \/ graph.nodes.tag = "Empty"
        THEN Executed(stored, Err("cannot execute simulator runner with empty graph"),
                      FALSE, 1)
        ELSE polars_execute(stored,
                            GraphData(RawPolars(graph.edges.plan), RawPolars(graph.nodes.plan)),
                            backend)

\* NetworkRunner::execute(&self, graph_db, graph, problem) of the simulator
execute(graph_db, graph, backend) ==
    IF graph.edges.tag = "Empty" \/ graph.nodes.tag = "Empty"
    THEN Executed(graph_db, Err("cannot execute simulator runner with empty graph"), FALSE, 0)
    ELSE polars_execute(graph_db,
                        GraphData(RawPolars(graph.edges.plan), RawPolars(graph.nodes.plan)),
                        backend)

\* The stages in pipeline order
StageSeq == <<"Raw", "Analyzed", "Solved", "Executed">>

StageRank(stage) == CHOOSE i \in 1 .. Len(StageSeq) : StageSeq[i] = stage

\* Mutant: a finished analysis counts as a finished solve
NextStageSkipsSolve(stage) ==
    IF stage = "Raw" THEN "Solved" ELSE StageSeq[StageRank(stage) + 1]

\* The stage a run is in once the step of its current stage succeeded
NextStage(stage) == StageSeq[StageRank(stage) + 1]

PipeStart(run, graph) ==
    [run |-> run, stage |-> "Raw", failed |-> "", graph |-> graph,
     out |-> NoArg, backend |-> FALSE, dbCalls |-> 0]

PipeInit == pipe = PipeStart(0, GraphData(Empty, Empty))

\* A run is under way and has not failed
Running == pipe.run > 0 /\ pipe.failed = ""

\* The caller starts a run on a raw graph
PipeNew ==
    /\ pipe.run < MaxRuns
    /\ \E graph \in GraphDatas : pipe' = PipeStart(pipe.run + 1, graph)
    /\ UNCHANGED <<map, notPipe>>

\* The Empty analyzer: raw graph and problem pass through unchanged
PipeAnalyze ==
    /\ Running /\ pipe.stage = "Raw"
    /\ pipe' = [pipe EXCEPT !.stage = NextStage(@)]
    /\ UNCHANGED <<map, notPipe>>

\* An analyzer fails: a required role has no column
PipeAnalyzeFail ==
    /\ Running /\ pipe.stage = "Raw"
    /\ pipe' = [pipe EXCEPT !.failed = "Analyzer"]
    /\ UNCHANGED <<map, notPipe>>

\* solve: the edges gain the flow column
PipeSolve ==
    /\ Running /\ pipe.stage = "Analyzed"
    /\ pipe' = [pipe EXCEPT !.stage = NextStage(@),
                            !.graph.edges = IF @.tag = "Empty" THEN @
                                            ELSE Polars(@.plan \o << <<"with_column", "flow">> >>)]
    /\ UNCHANGED <<map, notPipe>>

\* solve fails
PipeSolveFail ==
    /\ Running /\ pipe.stage = "Analyzed"
    /\ pipe' = [pipe EXCEPT !.failed = "Solver"]
    /\ UNCHANGED <<map, notPipe>>

\* execute on the solved graph, with the store passed as graph_db
PipeExecute ==
    /\ Running /\ pipe.stage = "Solved"
    /\ \E backend \in Backends :
          LET r == execute(map, pipe.graph, backend)
          IN  /\ map' = r.db
              /\ pipe' = [pipe EXCEPT !.stage = IF IsErr(r.out) THEN @ ELSE NextStage(@),
                                      !.failed = IF IsErr(r.out) THEN "Runner" ELSE @,
                                      !.out = r.out,
                                      !.backend = r.backend,
                                      !.dbCalls = r.calls]
    /\ UNCHANGED notPipe

PipeNext ==
    \/ PipeNew
    \/ PipeAnalyze
    \/ PipeAnalyzeFail
    \/ PipeSolve
    \/ PipeSolveFail
    \/ PipeExecute

-----------------------------------------------------------------------------
(* The solver: a minimum-cost flow over a node table and an edge table     *)

\* A row of the node table and of the edge table, under the default column names
NodeRow(name, capacity, supply, unit_cost) ==
    [name |-> name, capacity |-> capacity, supply |-> supply, unit_cost |-> unit_cost]

EdgeRow(src, sink, capacity, unit_cost) ==
    [src |-> src, sink |-> sink, capacity |-> capacity, unit_cost |-> unit_cost]

\* The graph of tests/simple_solver.rs
SimpleEdges == << EdgeRow(0, 1, 20, 1) >>

SimpleNodes == << NodeRow(0, 20, 20, 5), NodeRow(1, 10, 0, 0) >>

SimpleGraph == GraphData(SimpleEdges, SimpleNodes)

\* ProblemSpec { metadata, verbose }, the metadata being the default one
ProblemSpec(verbose) == [verbose |-> verbose]

default_verbose == FALSE

\* Node tables: a source holding a supply and a sink with some room
SolverNodes ==
    {<< NodeRow(0, 20, s, 5), NodeRow(1, c, 0, 0) >> : s \in {0, 20, 100}, c \in {0, 10, 30}}

\* Edge rows: from the source to the sink, or to a node that is not in the table
SolverEdgeRows ==
    {EdgeRow(0, 1, c, u) : c \in {5, 20}, u \in {1, 2}} \cup {EdgeRow(0, 2, 5, 1)}

\* Result<GraphData>: Ok with the edge rows, each with its flow, or Err
Solved(edges) == [tag |-> "Ok", edges |-> edges, msg |-> ""]

SolveErr(msg) == [tag |-> "Err", edges |-> <<>>, msg |-> msg]

NotSolved == [tag |-> "-", edges |-> <<>>, msg |-> ""]

RECURSIVE SumTo(_, _)
SumTo(f, n) == IF n = 0 THEN 0 ELSE f[n] + SumTo(f, n - 1)

\* What leaves and what enters the node `name` under the flows f
FlowOut(edges, f, name) ==
    SumTo([i \in 1 .. Len(edges) |-> IF edges[i].src = name THEN f[i] ELSE 0], Len(edges))

FlowIn(edges, f, name) ==
    SumTo([i \in 1 .. Len(edges) |-> IF edges[i].sink = name THEN f[i] ELSE 0], Len(edges))

\* What a node holds once the flows have moved: its supply, less what left,
\* plus what arrived
Holding(graph, f, node) ==
    node.supply + FlowIn(graph.edges, f, node.name) - FlowOut(graph.edges, f, node.name)

\* Every assignment of a flow within the capacity to each of the first k edges
RECURSIVE FlowsUpTo(_, _)
FlowsUpTo(edges, k) ==
    IF k = 0 THEN {<<>>}
    ELSE {Append(f, v) : f \in FlowsUpTo(edges, k - 1), v \in 0 .. edges[k].capacity}

\* Node conservation: no node gives more than it has, none holds more than
\* its capacity
Conserves(graph, f) ==
    \A i \in 1 .. Len(graph.nodes) :
        /\ FlowOut(graph.edges, f, graph.nodes[i].name)
             <= graph.nodes[i].supply + FlowIn(graph.edges, f, graph.nodes[i].name)
        /\ Holding(graph, f, graph.nodes[i]) <= graph.nodes[i].capacity

\* Total cost: every unit moved over an edge and every unit held at a node
TotalCost(graph, f) ==
    SumTo([i \in 1 .. Len(graph.edges) |-> f[i] * graph.edges[i].unit_cost],
          Len(graph.edges))
    + SumTo([i \in 1 .. Len(graph.nodes) |->
                Holding(graph, f, graph.nodes[i]) * graph.nodes[i].unit_cost],
            Len(graph.nodes))

\* Validation: every src and sink value resolves to a node of the node table
Resolves(graph) ==
    \A i \in 1 .. Len(graph.edges) :
        /\ \E j \in 1 .. Len(graph.nodes) : graph.nodes[j].name = graph.edges[i].src
        /\ \E j \in 1 .. Len(graph.nodes) : graph.nodes[j].name = graph.edges[i].sink

WithFlow(edges, f) ==
    [i \in 1 .. Len(edges) |->
        [src |-> edges[i].src, sink |-> edges[i].sink, capacity |-> edges[i].capacity,
         unit_cost |-> edges[i].unit_cost, flow |-> f[i]]]

\* The optimization: a feasible flow of least total cost, or the
\* infeasible-problem error when no flow is feasible
Optimize(graph, feasible) ==
    IF feasible = {} THEN SolveErr("InfeasibleProblem")
    ELSE LET costs == {TotalCost(graph, f) : f \in feasible}
             least == CHOOSE c \in costs : \A d \in costs : c <= d
         IN  Solved(WithFlow(graph.edges,
                             CHOOSE f \in feasible : TotalCost(graph, f) = least))

\* Mutant: the capacity of the nodes is not a constraint
solveIgnoresNodeCapacity(graph, problem) ==
    IF ~Resolves(graph) THEN SolveErr("InvalidGraph")
    ELSE LET feasible == {f \in FlowsUpTo(graph.edges, Len(graph.edges)) :
                             \A i \in 1 .. Len(graph.nodes) :
                                 FlowOut(graph.edges, f, graph.nodes[i].name)
                                   <= graph.nodes[i].supply
                                      + FlowIn(graph.edges, f, graph.nodes[i].name)}
         IN  Optimize(graph, feasible)

\* Mutant: a supply the sinks cannot absorb is rejected
solveRejectsExcess(graph, problem) ==
    IF ~Resolves(graph) THEN SolveErr("InvalidGraph")
    ELSE IF \E i \in 1 .. Len(graph.nodes) :
                graph.nodes[i].supply
                  > SumTo([j \in 1 .. Len(graph.nodes) |->
                             IF j = i THEN 0 ELSE graph.nodes[j].capacity],
                          Len(graph.nodes))
    THEN SolveErr("InfeasibleProblem")
    ELSE LET feasible == {f \in FlowsUpTo(graph.edges, Len(graph.edges)) :
                             Conserves(graph, f)}
         IN  Optimize(graph, feasible)

\* NetworkSolver::solve(graph, problem): validation, then a feasible flow of
\* least total cost, or the infeasible-problem error when there is none
solve(graph, problem) ==
    IF ~Resolves(graph) THEN SolveErr("InvalidGraph")
    ELSE LET feasible == {f \in FlowsUpTo(graph.edges, Len(graph.edges)) :
                             Conserves(graph, f)}
         IN  Optimize(graph, feasible)

\* Mutant: the cost column is the sum of the two columns
get_arc_costSum(optimized_edges, src, sink) ==
    LET found == SelectSeq(optimized_edges, LAMBDA e : e.src = src /\ e.sink = sink)
    IN  IF found = <<>> THEN <<>> ELSE << found[1].flow + found[1].unit_cost >>

\* get_arc_cost of the test: the cost column flow * unit_cost of the first
\* edge from src to sink, none when there is no such edge
get_arc_cost(optimized_edges, src, sink) ==
    LET found == SelectSeq(optimized_edges, LAMBDA e : e.src = src /\ e.sink = sink)
    IN  IF found = <<>> THEN <<>> ELSE << found[1].flow * found[1].unit_cost >>

\* The problem of the test: verbose set, the rest the default
SimpleProblem == ProblemSpec(~default_verbose)

SolStart(graph) ==
    [graph |-> graph, problem |-> SimpleProblem, result |-> NotSolved, done |-> FALSE]

SolInit == sol = SolStart(GraphData(<<>>, SimpleNodes))

\* Another graph: a node table, no edges yet
SolNew ==
    /\ \E nodes \in SolverNodes : sol' = SolStart(GraphData(<<>>, nodes))
    /\ UNCHANGED notSol

\* One more edge row
SolEdge ==
    /\ ~sol.done
    /\ Len(sol.graph.edges) < MaxArcs
    /\ \E e \in SolverEdgeRows : sol' = [sol EXCEPT !.graph.edges = Append(@, e)]
    /\ UNCHANGED notSol

\* The caller solves the graph
SolSolve ==
    /\ ~sol.done
    /\ sol.graph.edges # <<>>
    /\ sol' = [sol EXCEPT !.result = solve(sol.graph, sol.problem), !.done = TRUE]
    /\ UNCHANGED notSol

SolNext == SolNew \/ SolEdge \/ SolSolve

-----------------------------------------------------------------------------
(* The ModelClaim controller (dash/controller/src/ctx/model_claim.rs)      *)

\* ModelClaimState
ModelClaimStates == {"Pending", "Ready", "Replacing", "Deleting"}

\* ModelClaimSpec values, and None
ModelClaimSpecs == {"s1", "s2"}

NoSpec == "-"

\* Option<ModelClaimStatus>: None reads as the default state
NoStatus == [some |-> FALSE, state |-> "Pending", spec |-> NoSpec]

ModelClaimStatus(state, spec) == [some |-> TRUE, state |-> state, spec |-> spec]

\* A ModelClaimCrd as the API server holds it: deletion_timestamp set or
\* not, the controller's finalizer present or not, another finalizer present
\* or not, the status and the spec
ModelClaimCrd(deletion, finalizer, foreign, status, spec) ==
    [exists |-> TRUE, deletion |-> deletion, finalizer |-> finalizer,
     foreign |-> foreign, status |-> status, spec |-> spec]

\* Ctx::FALLBACK, in seconds
FALLBACK == 30

\* kube::runtime::controller::Action
Requeue(seconds) == [kind |-> "requeue", after |-> seconds]

AwaitChange == [kind |-> "await_change", after |-> 0]

\* A request a pass makes: to the API server (patch_status, add_finalizer,
\* remove_finalizer) or to the validator (validate, delete), and whether it
\* succeeded
Request(op, state, spec, ok) == [op |-> op, state |-> state, spec |-> spec, ok |-> ok]

\* What a pass did: its requests in order and the Action it returned
Pass(calls, action) == [calls |-> calls, action |-> action]

\* How the collaborators answer during a pass: the validator's two results,
\* whether the API server accepts the patch, and whether the finalizer
\* helper asks to be run again
Answers == [validate : BOOLEAN, delete : BOOLEAN, api : BOOLEAN, again : BOOLEAN]

\* Ctx::update_fields_or_requeue with Ctx::update_fields: one status patch,
\* and a requeue after FALLBACK whether or not the patch went through
update_fields_or_requeue(spec, state, answers) ==
    Pass(<< Request("patch_status", state, spec, answers.api) >>, Requeue(FALLBACK))

\* add_finalizer_or_requeue_namespaced and remove_finalizer_or_requeue_namespaced
\* of ark_core_k8s::manager::Ctx: one metadata patch, and an Action of the
\* helper's choosing
finalizer_or_requeue(op, answers) ==
    Pass(<< Request(op, "", NoSpec, answers.api) >>,
         IF answers.again THEN Requeue(FALLBACK) ELSE AwaitChange)

\* Mutant: Ready is written whatever the validator said
pending_armSkipsValidation(data, answers) ==
    LET patch == update_fields_or_requeue(data.spec, "Ready", answers)
    IN  Pass(<< Request("validate", "", NoSpec, answers.validate) >> \o patch.calls,
             patch.action)

\* reconcile, the arm of Pending and Replacing: validate, then write Ready
pending_arm(data, answers) ==
    IF answers.validate
    THEN LET patch == update_fields_or_requeue(data.spec, "Ready", answers)
         IN  Pass(<< Request("validate", "", NoSpec, TRUE) >> \o patch.calls, patch.action)
    ELSE Pass(<< Request("validate", "", NoSpec, FALSE) >>, Requeue(FALLBACK))

\* Mutant: the finalizer is removed whatever validator.delete returned
deleting_armIgnoresFailure(data, answers) ==
    LET removal == finalizer_or_requeue("remove_finalizer", answers)
    IN  Pass(<< Request("delete", "", NoSpec, answers.delete) >> \o removal.calls,
             removal.action)

\* reconcile, the arm of Deleting: validator.delete, then remove the finalizer
deleting_arm(data, answers) ==
    IF answers.delete
    THEN LET removal == finalizer_or_requeue("remove_finalizer", answers)
         IN  Pass(<< Request("delete", "", NoSpec, TRUE) >> \o removal.calls, removal.action)
    ELSE Pass(<< Request("delete", "", NoSpec, FALSE) >>, Requeue(FALLBACK))

\* Mutant: the finalizer is looked at before the deletion timestamp
reconcileFinalizerFirst(data, answers) ==
    IF ~data.finalizer
    THEN finalizer_or_requeue("add_finalizer", answers)
    ELSE IF data.deletion /\ (~data.status.some \/ data.status.state # "Deleting")
    THEN update_fields_or_requeue(IF data.status.some THEN data.status.spec ELSE NoSpec,
                                  "Deleting", answers)
    ELSE IF data.status.state \in {"Pending", "Replacing"} THEN pending_arm(data, answers)
    ELSE IF data.status.state = "Ready" THEN Pass(<<>>, AwaitChange)
    ELSE deleting_arm(data, answers)

\* Ctx::reconcile(manager, data) of the ModelClaim controller
reconcile(data, answers) ==
    IF data.deletion /\ (~data.status.some \/ data.status.state # "Deleting")
    THEN update_fields_or_requeue(IF data.status.some THEN data.status.spec ELSE NoSpec,
                                  "Deleting", answers)
    ELSE IF ~data.finalizer
    THEN finalizer_or_requeue("add_finalizer", answers)
    ELSE IF data.status.state \in {"Pending", "Replacing"} THEN pending_arm(data, answers)
    ELSE IF data.status.state = "Ready" THEN Pass(<<>>, AwaitChange)
    ELSE deleting_arm(data, answers)

\* The API server garbage-collects an object under deletion once no
\* finalizer is left on it
Collect(obj) ==
    IF obj.deletion /\ ~obj.finalizer /\ ~obj.foreign THEN [obj EXCEPT !.exists = FALSE]
    ELSE obj

\* The object after one request of a pass
Served(obj, request) ==
    IF ~request.ok \/ ~obj.exists THEN obj
    ELSE IF request.op = "patch_status"
    THEN [obj EXCEPT !.status = ModelClaimStatus(request.state, request.spec)]
    ELSE IF request.op = "add_finalizer" THEN [obj EXCEPT !.finalizer = TRUE]
    ELSE IF request.op = "remove_finalizer" THEN Collect([obj EXCEPT !.finalizer = FALSE])
    ELSE obj

RECURSIVE ServedAll(_, _)
ServedAll(obj, calls) ==
    IF calls = <<>> THEN obj ELSE ServedAll(Served(obj, Head(calls)), Tail(calls))

\* Whether a pass made a request of this kind that succeeded
Did(pass, op) == \E i \in 1 .. Len(pass.calls) : pass.calls[i].op = op /\ pass.calls[i].ok

NewClaim(foreign, spec) == ModelClaimCrd(FALSE, FALSE, foreign, NoStatus, spec)

NoPass == [done |-> FALSE, seen |-> NewClaim(FALSE, "s1"), before |-> NewClaim(FALSE, "s1"),
           after |-> NewClaim(FALSE, "s1"), pass |-> Pass(<<>>, AwaitChange)]

ClaimInit ==
    mc = [obj |-> NewClaim(FALSE, "s1"), data |-> NewClaim(FALSE, "s1"), phase |-> "idle",
          last |-> NoPass, work |-> FALSE, released |-> FALSE]

\* A user creates a claim once the previous one is gone
ClaimCreate ==
    /\ ~mc.obj.exists
    /\ mc.phase = "idle"
    /\ \E foreign \in BOOLEAN, spec \in ModelClaimSpecs :
          mc' = [mc EXCEPT !.obj = NewClaim(foreign, spec), !.last = NoPass,
                           !.work = FALSE, !.released = FALSE]
    /\ UNCHANGED notClaim

\* A user changes the spec of the claim
ClaimEdit ==
    /\ mc.obj.exists /\ ~mc.obj.deletion
    /\ \E spec \in ModelClaimSpecs \ {mc.obj.spec} : mc' = [mc EXCEPT !.obj.spec = spec]
    /\ UNCHANGED notClaim

\* A user deletes the claim: the API server stamps it, and collects it at
\* once when no finalizer holds it
ClaimDelete ==
    /\ mc.obj.exists /\ ~mc.obj.deletion
    /\ mc' = [mc EXCEPT !.obj = Collect([mc.obj EXCEPT !.deletion = TRUE])]
    /\ UNCHANGED notClaim

\* The owner of the other finalizer lets go
ClaimForeignDone ==
    /\ mc.obj.exists /\ mc.obj.deletion /\ mc.obj.foreign
    /\ mc' = [mc EXCEPT !.obj = Collect([mc.obj EXCEPT !.foreign = FALSE])]
    /\ UNCHANGED notClaim

\* Another component marks a ready claim as being replaced
ClaimReplace ==
    /\ mc.obj.exists /\ mc.obj.status.some /\ mc.obj.status.state = "Ready"
    /\ mc' = [mc EXCEPT !.obj.status.state = "Replacing"]
    /\ UNCHANGED notClaim

\* The controller runtime hands a copy of the object to reconcile
ClaimObserve ==
    /\ mc.phase = "idle"
    /\ mc.obj.exists
    /\ mc' = [mc EXCEPT !.data = mc.obj, !.phase = "observed"]
    /\ UNCHANGED notClaim

\* reconcile runs on the copy it was handed; its requests reach the object
\* as it is by then
ClaimReconcile ==
    /\ mc.phase = "observed"
    /\ \E answers \in Answers :
          /\ answers.api => mc.obj.exists
          /\ LET pass == reconcile(mc.data, answers)
                 after == ServedAll(mc.obj, pass.calls)
             IN  mc' = [mc EXCEPT !.obj = after,
                                  !.phase = "idle",
                                  !.last = [done |-> TRUE, seen |-> mc.data,
                                            before |-> mc.obj, after |-> after,
                                            pass |-> pass],
                                  !.work = @ \/ Did(pass, "delete"),
                                  !.released = @ \/ Did(pass, "remove_finalizer")]
    /\ UNCHANGED notClaim

ClaimNext ==
    \/ ClaimCreate
    \/ ClaimEdit
    \/ ClaimDelete
    \/ ClaimForeignDone
    \/ ClaimReplace
    \/ ClaimObserve
    \/ ClaimReconcile

-----------------------------------------------------------------------------
(* The ModelStorageBinding controller                                      *)
(* (dash/controller/src/ctx/model_storage_binding.rs)                      *)

\* ModelStorageBindingState
ModelStorageBindingStates == {"Pending", "Ready"}

\* impl Default for ModelStorageBindingState
DefaultBindingState == "Pending"

\* ModelStorageBindingSpec: the model and the storage it names
BindingSpecs == [model : {"m1", "m2"}, storage : {"st1", "st2"}]

\* Option<ModelStorageBindingStatus>: None, and a status with its state and
\* the optional model and storage it records ("-" is None)
NoBindingStatus ==
    [some |-> FALSE, state |-> DefaultBindingState, model |-> "-", storage |-> "-"]

ModelStorageBindingStatus(state, model, storage) ==
    [some |-> TRUE, state |-> state, model |-> model, storage |-> storage]

ModelStorageBindingCrd(status, spec) == [exists |-> TRUE, status |-> status, spec |-> spec]

\* <Ctx as ark_core_k8s::manager::Ctx>::FALLBACK of this controller, seconds
BINDING_FALLBACK == 30

\* How the collaborators answer during a pass
BindingAnswers == [validate : BOOLEAN, api : BOOLEAN]

\* What reconcile returned: Ok(action) or Err
BindingResult(ok, calls, action) == [ok |-> ok, calls |-> calls, action |-> action]

BindingRequest(op, status, ok) == [op |-> op, status |-> status, ok |-> ok]

\* Mutant: a failed status patch is returned as an error
update_state_or_requeuePropagates(model, storage, answers) ==
    BindingResult(answers.api,
                  << BindingRequest("patch_status",
                                    ModelStorageBindingStatus("Ready", model, storage),
                                    answers.api) >>,
                  Requeue(BINDING_FALLBACK))

\* Ctx::update_state_or_requeue with Ctx::update_state: one status patch to
\* Ready with the model and the storage, and Ok(requeue) either way
update_state_or_requeue(model, storage, answers) ==
    BindingResult(TRUE,
                  << BindingRequest("patch_status",
                                    ModelStorageBindingStatus("Ready", model, storage),
                                    answers.api) >>,
                  Requeue(BINDING_FALLBACK))

\* Mutant: the status is patched whatever the validator said
binding_reconcileSkipsValidation(data, answers) ==
    IF data.status.state = "Pending"
    THEN LET patch == update_state_or_requeue(data.spec.model, data.spec.storage, answers)
         IN  BindingResult(patch.ok,
                           << BindingRequest("validate", NoBindingStatus, answers.validate) >>
                               \o patch.calls,
                           patch.action)
    ELSE BindingResult(TRUE, <<>>, AwaitChange)

\* Ctx::reconcile(manager, data) of the ModelStorageBinding controller
binding_reconcile(data, answers) ==
    IF data.status.state = "Pending"
    THEN IF answers.validate
         THEN LET patch == update_state_or_requeue(data.spec.model, data.spec.storage,
                                                   answers)
              IN  BindingResult(patch.ok,
                                << BindingRequest("validate", NoBindingStatus, TRUE) >>
                                    \o patch.calls,
                                patch.action)
         ELSE BindingResult(TRUE, << BindingRequest("validate", NoBindingStatus, FALSE) >>,
                            Requeue(BINDING_FALLBACK))
    ELSE BindingResult(TRUE, <<>>, AwaitChange)

\* The object after one request of a pass
BindingServed(obj, request) ==
    IF request.ok /\ obj.exists /\ request.op = "patch_status"
    THEN [obj EXCEPT !.status = request.status]
    ELSE obj

RECURSIVE BindingServedAll(_, _)
BindingServedAll(obj, calls) ==
    IF calls = <<>> THEN obj
    ELSE BindingServedAll(BindingServed(obj, Head(calls)), Tail(calls))

NewBinding(spec) == ModelStorageBindingCrd(NoBindingStatus, spec)

FirstBinding == NewBinding([model |-> "m1", storage |-> "st1"])

NoBindingPass == [done |-> FALSE, seen |-> FirstBinding, before |-> FirstBinding,
                  after |-> FirstBinding, result |-> BindingResult(TRUE, <<>>, AwaitChange)]

BindingInit ==
    msb = [obj |-> FirstBinding, data |-> FirstBinding, phase |-> "idle",
           last |-> NoBindingPass]

\* A user creates a binding once the previous one is gone
BindingCreate ==
    /\ ~msb.obj.exists
    /\ msb.phase = "idle"
    /\ \E spec \in BindingSpecs : msb' = [msb EXCEPT !.obj = NewBinding(spec),
                                                     !.last = NoBindingPass]
    /\ UNCHANGED notBinding

\* A user deletes the binding
BindingDelete ==
    /\ msb.obj.exists
    /\ msb' = [msb EXCEPT !.obj.exists = FALSE]
    /\ UNCHANGED notBinding

\* Another client sets the state of an existing status back to Pending
BindingReset ==
    /\ msb.obj.exists /\ msb.obj.status.some /\ msb.obj.status.state = "Ready"
    /\ msb' = [msb EXCEPT !.obj.status.state = "Pending"]
    /\ UNCHANGED notBinding

\* The controller runtime hands a copy of the object to reconcile
BindingObserve ==
    /\ msb.phase = "idle"
    /\ msb.obj.exists
    /\ msb' = [msb EXCEPT !.data = msb.obj, !.phase = "observed"]
    /\ UNCHANGED notBinding

\* reconcile runs on the copy it was handed
BindingReconcile ==
    /\ msb.phase = "observed"
    /\ \E answers \in BindingAnswers :
          /\ answers.api => msb.obj.exists
          /\ LET result == binding_reconcile(msb.data, answers)
                 after == BindingServedAll(msb.obj, result.calls)
             IN  msb' = [msb EXCEPT !.obj = after,
                                    !.phase = "idle",
                                    !.last = [done |-> TRUE, seen |-> msb.data,
                                              before |-> msb.obj, after |-> after,
                                              result |-> result]]
    /\ UNCHANGED notBinding

BindingNext ==
    \/ BindingCreate
    \/ BindingDelete
    \/ BindingReset
    \/ BindingObserve
    \/ BindingReconcile

-----------------------------------------------------------------------------
(* AnsibleClient::spawn (kiss/api/src/ansible/mod.rs)                      *)

\* The number of spawn calls in a behaviour
MaxSpawns == 2

\* The boxes, by machine uuid, and the role of each box's group
Boxes == {"b1", "b2"}

BoxGroupRole(box) == IF box = "b1" THEN "ControlPlane" ELSE "Worker"

\* BoxState: the two states spawn names, and one of the others
BoxStates == {"Joining", "Running", "Disconnected"}

\* Result<bool> of a ClusterState method
Outcomes == {"true", "false", "err"}

\* What load_state, lock, release and is_control_plane_ready return
ClusterAnswers == [load : BOOLEAN, lock : Outcomes, release : Outcomes, ready : Outcomes]

\* AnsibleJob: the box, the new state (which names the task) and whether a
\* cron schedule is given
AnsibleJobs == [box : Boxes, new_state : BoxStates, cron : BOOLEAN]

\* A Job or CronJob object: the label LABEL_BOX_NAME, its kind, the task in
\* its name, the spawn call it goes back to, and whether the CronJob
\* controller made it from a CronJob's template
JobObject(box, kind, task, by, child) ==
    [box |-> box, kind |-> kind, task |-> task, by |-> by, child |-> child]

\* The object spawn creates for a job: a CronJob when job.cron is Some
NewObject(job, by) ==
    JobObject(job.box, IF job.cron THEN "CronJob" ELSE "Job", job.new_state, by, FALSE)

\* api.delete_collection(&dp, &lp) with label_selector LABEL_BOX_NAME = box_name
delete_collection(jobs, kind, box) == {j \in jobs : ~(j.kind = kind /\ j.box = box)}

\* Mutant: the Jobs are deleted before the CronJobs
DeleteOrderJobsFirst == << "Job", "CronJob" >>

\* The order of the two delete_collection calls
DeleteOrder == << "CronJob", "Job" >>

Asked(op, out) == [op |-> op, out |-> out]

\* The end of the mutual exclusivity block: go on to create the job, return
\* Ok(false), or return the error
Verdict(out) == IF out = "true" THEN "pass" ELSE out

LockResult(asked, verdict) == [asked |-> asked, verdict |-> verdict]

\* Mutant: a control-plane box goes on whatever lock() or release() returned
ControlPlaneStepIgnoresLock(new_state, answers) ==
    IF new_state \in {"Joining", "Disconnected"}
    THEN LockResult(<< Asked("lock", answers.lock) >>,
                    IF answers.lock = "err" THEN "err" ELSE "pass")
    ELSE LockResult(<< Asked("release", answers.release) >>,
                    IF answers.release = "err" THEN "err" ELSE "pass")

\* The arm BoxGroupRole::ControlPlane of spawn
ControlPlaneStep(new_state, answers) ==
    IF new_state \in {"Joining", "Disconnected"}
    THEN LockResult(<< Asked("lock", answers.lock) >>, Verdict(answers.lock))
    ELSE LockResult(<< Asked("release", answers.release) >>, Verdict(answers.release))

\* Mutant: a joining worker does not wait for the control plane
WorkerStepSkipsReadiness(new_state, answers) ==
    IF new_state \in {"Joining", "Disconnected"}
    THEN LockResult(<< Asked("release", answers.release) >>, Verdict(answers.release))
    ELSE LockResult(<<>>, "pass")

\* The arm BoxGroupRole::Worker of spawn
WorkerStep(new_state, answers) ==
    IF new_state = "Joining" /\ answers.ready # "true"
    THEN LockResult(<< Asked("is_control_plane_ready", answers.ready) >>, answers.ready)
    ELSE LET ready == IF new_state = "Joining"
                      THEN << Asked("is_control_plane_ready", "true") >>
                      ELSE <<>>
         IN  IF new_state \in {"Joining", "Disconnected"}
             THEN LockResult(ready \o << Asked("release", answers.release) >>,
                             Verdict(answers.release))
             ELSE LockResult(ready, "pass")

\* spawn, "realize mutual exclusivity": load_state, then the arm of the role
LockStep(job, answers) ==
    IF ~answers.load THEN LockResult(<< Asked("load_state", "err") >>, "err")
    ELSE LET arm == IF BoxGroupRole(job.box) = "ControlPlane"
                    THEN ControlPlaneStep(job.new_state, answers)
                    ELSE WorkerStep(job.new_state, answers)
         IN  LockResult(<< Asked("load_state", "true") >> \o arm.asked, arm.verdict)

NoJob == [box |-> "b1", new_state |-> "Running", cron |-> FALSE]

NoSpawn == [done |-> FALSE, n |-> 0, job |-> NoJob, result |-> "err", asked |-> <<>>,
            before |-> {}, after |-> {}]

AnsibleInit == ans = [jobs |-> {}, n |-> 0, pc |-> "idle", job |-> NoJob, asked |-> <<>>,
                      before |-> {}, last |-> NoSpawn]

\* The call returns: what it returned and the objects there are by then
Returned(result, asked, jobs) ==
    [done |-> TRUE, n |-> ans.n, job |-> ans.job, result |-> result, asked |-> asked,
     before |-> ans.before, after |-> jobs]

\* A controller calls spawn(cluster_manager, kube, job)
SpawnCall ==
    /\ ans.pc = "idle"
    /\ ans.n < MaxSpawns
    /\ \E job \in AnsibleJobs :
          ans' = [ans EXCEPT !.n = @ + 1, !.pc = "delete1", !.job = job, !.asked = <<>>,
                             !.before = ans.jobs]
    /\ UNCHANGED notAnsible

\* "delete all previous cronjobs", "delete all previous jobs": the call
\* returns the error when the API server refuses
SpawnDelete ==
    /\ ans.pc \in {"delete1", "delete2"}
    /\ \E ok \in BOOLEAN :
          IF ok
          THEN ans' = [ans EXCEPT
                          !.jobs = delete_collection(
                                       @, DeleteOrder[IF ans.pc = "delete1" THEN 1 ELSE 2],
                                       ans.job.box),
                          !.pc = IF ans.pc = "delete1" THEN "delete2" ELSE "lock"]
          ELSE ans' = [ans EXCEPT !.pc = "idle",
                                  !.last = Returned("err", <<>>, ans.jobs)]
    /\ UNCHANGED notAnsible

\* "realize mutual exclusivity": the call goes on, or returns Ok(false) or
\* the error
SpawnLock ==
    /\ ans.pc = "lock"
    /\ \E answers \in ClusterAnswers :
          LET step == LockStep(ans.job, answers)
          IN  IF step.verdict = "pass"
              THEN ans' = [ans EXCEPT !.pc = "create", !.asked = step.asked]
              ELSE ans' = [ans EXCEPT !.pc = "idle",
                                      !.last = Returned(step.verdict, step.asked, ans.jobs)]
    /\ UNCHANGED notAnsible

\* api.create(&pp, &job) of the CronJob or the Job, and the return
SpawnCreate ==
    /\ ans.pc = "create"
    /\ \E ok \in BOOLEAN :
          LET jobs == IF ok THEN ans.jobs \cup {NewObject(ans.job, ans.n)} ELSE ans.jobs
          IN  ans' = [ans EXCEPT !.jobs = jobs, !.pc = "idle",
                                 !.last = Returned(IF ok THEN "true" ELSE "err",
                                                   ans.asked, jobs)]
    /\ UNCHANGED notAnsible

\* The CronJob controller creates a Job from the template of a CronJob; the
\* template carries the labels of the CronJob
CronFire ==
    /\ \E c \in ans.jobs :
          /\ c.kind = "CronJob"
          /\ JobObject(c.box, "Job", c.task, c.by, TRUE) \notin ans.jobs
          /\ ans' = [ans EXCEPT !.jobs = @ \cup {JobObject(c.box, "Job", c.task, c.by, TRUE)}]
    /\ UNCHANGED notAnsible

AnsibleNext ==
    \/ SpawnCall
    \/ SpawnDelete
    \/ SpawnLock
    \/ SpawnCreate
    \/ CronFire

-----------------------------------------------------------------------------
Init == FrameInit /\ StoreInit /\ CostInit /\ FabInit /\ RowsInit /\ PipeInit /\ SolInit
        /\ ClaimInit /\ BindingInit /\ AnsibleInit

\* The graph store under concurrent callers
Spec == Init /\ [][StoreNext]_vars

\* The runtime polls every task that can take or give back the lock
StoreFairness ==
    \A p \in Procs :
        /\ WF_vars(AcquireRead(p))
        /\ WF_vars(AcquireWrite(p))
        /\ WF_vars(GetRead(p))
        /\ WF_vars(ListRead(p))
        /\ WF_vars(InsertWrite(p))
        /\ WF_vars(InsertReturn(p))

\* db.insert(graph) is called, in the behaviours checked for progress
LiveCallInsert(p) ==
    /\ Len(insRec) < MaxLiveInserts
    /\ CallInsert(p)

StoreLiveNext ==
    \E p \in Procs :
        \/ CallGet(p)
        \/ LiveCallInsert(p)
        \/ CallList(p)
        \/ AcquireRead(p)
        \/ AcquireWrite(p)
        \/ GetRead(p)
        \/ ListRead(p)
        \/ InsertWrite(p)
        \/ InsertReturn(p)
        \/ Close(p)
        \/ CallerAlias(p)

\* The store with its tasks scheduled fairly
SpecLive == Init /\ [][StoreLiveNext]_vars /\ StoreFairness

\* One caller driving a LazyFrame
SpecFrame == Init /\ [][FrameNext]_vars

\* The cost of a graph summed in 64-bit arithmetic
SpecCost == Init /\ [][CostNext]_vars

\* fabric on node tables
SpecFabric == Init /\ [][FabNext]_vars

\* NetworkGraphRow values and their callers
SpecRows == Init /\ [][RowsNext]_vars

\* One caller running the pipeline against the store
SpecPipe == Init /\ [][PipeNext]_vars

\* One caller of the solver
SpecSolve == Init /\ [][SolNext]_vars

\* The ModelClaim controller, its users and the API server
SpecClaim == Init /\ [][ClaimNext]_vars

\* The ModelStorageBinding controller, its users and the API server
SpecBinding == Init /\ [][BindingNext]_vars

\* AnsibleClient::spawn, its callers and the CronJob controller
SpecAnsible == Init /\ [][AnsibleNext]_vars

-----------------------------------------------------------------------------
(* Properties of the graph store                                           *)

\* The insert calls made so far on scope s
InsertsOn(s) == {i \in 1 .. Len(insRec) : insRec[i].graph.scope = s}

\* Insert i had returned before insert j was called
Older(i, j) == i \in insRec[j].pred

\* Every graph passed to an insert call so far
Passed == {insRec[i].graph : i \in 1 .. Len(insRec)}

\* The scopes written so far and the last graph written for each
Written == {insRec[writes[i]].graph.scope : i \in 1 .. Len(writes)}

LastWritten(s) ==
    LET n == CHOOSE i \in 1 .. Len(writes) :
                 /\ insRec[writes[i]].graph.scope = s
                 /\ \A j \in (i + 1) .. Len(writes) : insRec[writes[j]].graph.scope # s
    IN  insRec[writes[n]].graph

\* Task p returns from a get or a list in this step
Returns(p, name) == pc[p] = "locked" /\ call[p].name = name /\ pc'[p] = "idle"

\* C1: a get that starts after insert(g) returned yields Some(g') where g' was
\* passed to an insert on that scope that is not older than g's (it did not
\* return before g's insert was called): never None, never an older value;
\* and when every other insert on the scope is older than g's, it yields Some(g).
C1_GetAfterInsert ==
    [][\A p \in Procs :
         Returns(p, "get") =>
           LET s == call[p].scope
               C == seen[p] \cap InsertsOn(s)
               r == res'[p]
           IN  C # {} =>
                 /\ r.tag = "Some"
                 /\ \E i \in InsertsOn(s) :
                      /\ DerefIn(map', r.items[1]) = insRec[i].graph
                      /\ \A c \in C : ~Older(i, c)
                 /\ \A c \in C :
                      (\A j \in InsertsOn(s) \ {c} : Older(j, c))
                        => DerefIn(map', r.items[1]) = insRec[c].graph]_vars

\* C1 witness: a get returned the newer of two graphs inserted one after the
\* other on its scope, both inserts having returned before the get started.
C1_Witness ==
    \E p \in Procs :
        /\ pc[p] = "idle" /\ call[p].name = "get" /\ res[p].tag = "Some"
        /\ \E i, j \in seen[p] \cap InsertsOn(call[p].scope) :
             /\ Older(i, j)
             /\ insRec[i].graph # insRec[j].graph
             /\ DerefIn(map, res[p].items[1]) = insRec[j].graph

\* C2: every graph a get or a list returns is, whole, a graph that was passed
\* to one insert call: scope and data come from the same call.
C2_WholeGraphs ==
    [][\A p \in Procs :
         (Returns(p, "get") \/ Returns(p, "list")) =>
           \A i \in 1 .. Len(res'[p].items) :
               DerefIn(map', res'[p].items[i]) \in Passed]_vars

\* C2 witness: a list returned two graphs while the same scope had been
\* inserted twice with different data.
C2_Witness ==
    \E p \in Procs :
        /\ pc[p] = "idle" /\ call[p].name = "list"
        /\ Len(res[p].items) >= 1
        /\ \E i, j \in 1 .. Len(insRec) :
             /\ insRec[i].done /\ insRec[j].done
             /\ insRec[i].graph.scope = insRec[j].graph.scope
             /\ insRec[i].graph.data # insRec[j].graph.data

\* C3: the map holds at most one graph per scope, and the graph stored under
\* key s has scope s.
C3_OnePerScope ==
    \A e1 \in map :
        /\ e1[2].scope = e1[1]
        /\ \A e2 \in map : e1[1] = e2[1] => e1 = e2

\* C3 witness: a scope holds a graph after two different graphs were inserted
\* for it.
C3_Witness ==
    \E e \in map :
        \E i, j \in InsertsOn(e[1]) :
            /\ insRec[i].done /\ insRec[j].done
            /\ insRec[i].graph # insRec[j].graph

\* C4: list(None) returns exactly one graph per scope written so far, the last
\* one written for it; list(Some(filter)) returns exactly those of them whose
\* scope the filter contains.
C4_ListExact ==
    [][\A p \in Procs :
         Returns(p, "list") =>
           LET f == call[p].filter
               E == {s \in Written : f.some => contains(f, s)}
               r == res'[p]
           IN  /\ r.tag = "Vec"
               /\ Len(r.items) = Cardinality(E)
               /\ \A s \in E :
                    \E i \in 1 .. Len(r.items) :
                        DerefIn(map', r.items[i]) = LastWritten(s)]_vars

\* C4 witness: with both scopes written, a filtered list returned one graph.
C4_Witness ==
    \E p \in Procs :
        /\ pc[p] = "idle" /\ call[p].name = "list" /\ call[p].filter.some
        /\ Len(res[p].items) = 1
        /\ Written = Scopes

\* C5: a graph handed to a caller changes only by that caller's own doing, and
\* what a caller does to a graph it was handed leaves the map as it was.
C5_Copies ==
    [][\A p \in Procs :
         /\ res'[p] = res[p] =>
              \A i \in 1 .. Len(res[p].items) :
                  DerefIn(map', res[p].items[i]) = DerefIn(map, res[p].items[i])
         /\ (pc[p] = "idle" /\ pc'[p] = "idle" /\ call'[p] = call[p]
               /\ \A q \in Procs : pc'[q] = pc[q])
              => map' = map]_vars

\* C5 witness: a caller holds a graph it changed after get returned it, while
\* the map still holds the graph as inserted; or it holds a graph that a later
\* insert on the scope replaced in the map.
C5_Witness ==
    \E p \in Procs :
        /\ pc[p] = "idle" /\ call[p].name = "get" /\ res[p].tag = "Some"
        /\ DerefIn(map, res[p].items[1]) \notin Passed
        /\ \A e \in map : e[2] \in Passed

\* C6: the map changes only in the write step of an insert, which replaces the
\* graph of the inserted scope and leaves every other entry as it was; no step
\* removes a scope; close returns Ok.
C6_OnlyInsertWrites ==
    [][/\ \A e \in map : \E e2 \in map' : e2[1] = e[1]
       /\ map' # map =>
            \E p \in Procs :
                /\ pc[p] = "locked" /\ call[p].name = "insert" /\ pc'[p] = "ret"
                /\ <<call[p].graph.scope, call[p].graph>> \in map'
                /\ \A e \in map : e[1] # call[p].graph.scope => e \in map'
                /\ \A e \in map' : e[1] # call[p].graph.scope => e \in map
       /\ \A p \in Procs :
            call'[p].name = "close" => res'[p] = Res("Ok", <<>>)]_vars

\* C6 witness: close has returned Ok with both scopes still stored.
C6_Witness ==
    \E p \in Procs :
        /\ call[p].name = "close" /\ res[p] = Res("Ok", <<>>)
        /\ {e[1] : e \in map} = Scopes

-----------------------------------------------------------------------------
(* Properties of the LazyFrame                                             *)

\* The last call was op, made on the Empty frame
OnEmpty(op) == fcall.op = op /\ fcall.self = Empty

\* Operands of the last concat, left and right
ConcatLeft == IF fcall.name = "self" THEN fcall.self ELSE fcall.other

ConcatRight == IF fcall.name = "self" THEN fcall.other ELSE fcall.self

\* C7: Empty is the identity of concat: concat(Empty, G) = G, concat(G, Empty) = G
\* and concat(Empty, Empty) = Empty, each without an error.
C7_ConcatIdentity ==
    fcall.op = "concat" =>
        /\ ConcatLeft = Empty => fcall.out = ConcatRight
        /\ ConcatRight = Empty => fcall.out = ConcatLeft
        /\ (ConcatLeft = Empty /\ ConcatRight = Empty) => fcall.out = Empty

\* C7 witness: concat(Empty, G) returned the polars frame G.
C7_Witness ==
    /\ fcall.op = "concat"
    /\ ConcatLeft = Empty
    /\ ConcatRight.tag = "Polars"
    /\ fcall.out = ConcatRight
    /\ frame = ConcatRight

\* The operations C8 lists
FailingOnEmpty ==
    {"all", "get_column", "fabric", "alias", "insert_column", "apply_filter",
     "fill_column_with_feature", "fill_column_with_value"}

\* C8: on the Empty frame all, get_column, fabric, alias, insert_column,
\* apply_filter, fill_column_with_feature and fill_column_with_value return an
\* error, and the frame is still Empty afterwards.
C8_EmptyFails ==
    \A op \in FailingOnEmpty :
        OnEmpty(op) => IsErr(fcall.out) /\ frame = Empty

\* C8 witness: alias on the Empty frame returned an error.
C8_Witness == OnEmpty("alias") /\ IsErr(fcall.out) /\ frame = Empty

\* C9 as stated: on the Empty frame every operation other than concat and
\* collect returns an error.
C9_Original ==
    (fcall.self = Empty /\ fcall.op \notin {"new", "concat", "collect"})
        => IsErr(fcall.out)

\* C9 amended: on the Empty frame every operation other than concat, collect,
\* cast and try_into_polars returns an error; try_into_polars returns the
\* default (empty) polars plan.
C9_EmptyFailsExcept ==
    /\ (fcall.self = Empty
          /\ fcall.op \notin {"new", "concat", "collect", "cast", "try_into_polars"})
         => IsErr(fcall.out)
    /\ OnEmpty("try_into_polars") => fcall.out = RawPolars(<<>>)

\* C9 witness: try_into_lazy_slice against the Empty frame returned an error.
C9_Witness == OnEmpty("try_into_lazy_slice") /\ IsErr(fcall.out)

\* C10: cast on the Empty frame returns Empty whatever the target type, the
\* origin metadata and the problem, and collect on the Empty frame returns
\* DataFrame::Empty, not an error.
C10_CastCollectEmpty ==
    /\ OnEmpty("cast") => fcall.out = Empty /\ frame = Empty
    /\ OnEmpty("collect") => fcall.out = DataFrameEmpty

\* C10 witness: collect on the Empty frame returned DataFrame::Empty.
C10_Witness == OnEmpty("collect") /\ fcall.out = DataFrameEmpty /\ frame = Empty

-----------------------------------------------------------------------------
(* Properties of the cost arithmetic                                       *)

\* The edges summed so far
Summed == SubSeq(cost.edges, 1, cost.next - 1)

\* Every capacity summed so far is at most MAX_CAPACITY
CapacitiesBounded == \A i \in 1 .. Len(Summed) : BigLeq(Summed[i].capacity, MAX_CAPACITY)

\* The unit costs summed so far, added up
UnitCostTotal == BigSum([i \in 1 .. Len(Summed) |-> Summed[i].unit_cost])

-----------------------------------------------------------------------------
(* Properties of fabric                                                    *)

\* The fabric row of the ordered pair of the i-th and the j-th node
FabricRow(i, j) == fab.rows[(i - 1) * Len(fab.nodes) + j]

\* The row keeps both nodes' keys and their own capacity values, prefixed
PairOf(row, src, sink) ==
    /\ \A p \in src : HasCell(row, IF p[1] = fab.problem.name THEN fab.problem.src
                                   ELSE fab.problem.src \o "." \o p[1], p[2])
    /\ \A p \in sink : HasCell(row, IF p[1] = fab.problem.name THEN fab.problem.sink
                                    ELSE fab.problem.sink \o "." \o p[1], p[2])

\* C11: fabric on a concrete node frame of n rows gives exactly n*n rows, one
\* for every ordered (src, sink) pair of nodes, self-pairs included, and the
\* capacity column of every row is MAX_CAPACITY whatever the nodes' own
\* capacity values are.
C11_FabricComplete ==
    fab.done =>
        /\ fab.out.tag = "Polars"
        /\ Len(fab.rows) = Len(fab.nodes) * Len(fab.nodes)
        /\ \A i, j \in 1 .. Len(fab.nodes) :
              PairOf(FabricRow(i, j), fab.nodes[i], fab.nodes[j])
        /\ \A k \in 1 .. Len(fab.rows) :
              \A v \in {p[2] : p \in {q \in fab.rows[k] : q[1] = fab.problem.capacity}} :
                  v = MAX_CAPACITY
        /\ \A k \in 1 .. Len(fab.rows) : HasColumn(fab.rows[k], fab.problem.capacity)

\* C11 witness: two nodes whose own capacities are 0 and 2^32 gave four rows,
\* the self-pair of the second node among them with capacity MAX_CAPACITY
C11_Witness ==
    /\ fab.done
    /\ Len(fab.nodes) = 2
    /\ HasCell(fab.nodes[1], "a", Big(0))
    /\ HasCell(fab.nodes[2], "a", Pow32)
    /\ Len(fab.rows) = 4
    /\ HasCell(fab.rows[4], "src", Big(1))
    /\ HasCell(fab.rows[4], "sink", Big(1))
    /\ HasCell(fab.rows[4], fab.problem.capacity, MAX_CAPACITY)

-----------------------------------------------------------------------------
(* Properties of NetworkGraphRow                                           *)

\* C12: the id of a NetworkGraphRow is a function of its key alone: rows made
\* by try_new from field-wise equal keys have equal ids whatever their values
\* and whenever they were made, and the id of a row never changes afterwards.
C12_IdOfKey ==
    [][/\ \A i \in 1 .. Len(rows) : id(rows'[i]) = id(rows[i])
       /\ \A i, j \in 1 .. Len(rows') :
             rows'[i].arg = rows'[j].arg => id(rows'[i]) = id(rows'[j])]_vars

\* C12 witness: two rows made from the same key with different values, in
\* this order, and the second one's public fields reassigned since
C12_Witness ==
    /\ Len(rows) = 2
    /\ rows[1].arg = rows[2].arg
    /\ rows[1].value # rows[2].value
    /\ rows[2].key # rows[2].arg
    /\ id(rows[1]) = id(rows[2])

-----------------------------------------------------------------------------
(* Properties of the runner and the pipeline                               *)

EmptyGraphError == Err("cannot execute simulator runner with empty graph")

\* The graph of the current run has an Empty frame
HasEmptyFrame == pipe.graph.edges.tag = "Empty" \/ pipe.graph.nodes.tag = "Empty"

\* execute has returned in the current run
ExecuteReturned == pipe.out # NoArg

\* C13: execute fails with the empty-graph error whenever edges or nodes (or
\* both) is the Empty frame, and then the backend execution step is never
\* entered.
C13_EmptyGraphFailsFast ==
    (ExecuteReturned /\ HasEmptyFrame) =>
        /\ pipe.out = EmptyGraphError
        /\ ~pipe.backend
        /\ pipe.stage = "Solved" /\ pipe.failed = "Runner"

\* C13 witness: execute returned on concrete edges and Empty nodes
C13_Witness ==
    /\ ExecuteReturned
    /\ pipe.graph.edges.tag = "Polars"
    /\ pipe.graph.nodes.tag = "Empty"
    /\ pipe.out = EmptyGraphError

\* A step in which a stage of the current run fails
StageFails == pipe.failed = "" /\ pipe'.failed # "" /\ pipe'.run = pipe.run

\* C14: a failure of the Analyzer, the Solver or the Runner leaves the graph
\* store as it was, and execute failing on an Empty edges or nodes frame makes
\* no get, insert or list call on the store.
C14_FailureKeepsStore ==
    [][StageFails =>
          /\ map' = map
          /\ (pipe'.failed = "Runner" /\ HasEmptyFrame) => pipe'.dbCalls = 0]_vars

\* C14 witness: the store holds a graph written back by an earlier run and
\* the runner of the second run failed on an Empty frame
C14_Witness ==
    /\ map # {}
    /\ pipe.run = 2
    /\ pipe.failed = "Runner"
    /\ HasEmptyFrame
    /\ pipe.dbCalls = 0

\* C15: a run only moves forward along Raw, Analyzed, Solved, Executed, one
\* stage at a time, and once a stage failed the run stays where it is.
C15_LinearStages ==
    [][pipe'.run = pipe.run =>
          /\ StageRank(pipe'.stage) \in {StageRank(pipe.stage), StageRank(pipe.stage) + 1}
          /\ pipe.failed # "" => (pipe'.stage = pipe.stage /\ pipe'.failed = pipe.failed)
          /\ pipe'.failed # "" => pipe'.stage = pipe.stage]_vars

\* C15 witness: the second run went through every stage and the backend ran
C15_Witness ==
    /\ pipe.run = 2
    /\ pipe.stage = "Executed"
    /\ pipe.failed = ""
    /\ pipe.backend

-----------------------------------------------------------------------------
(* Properties of the solver                                                *)

SolvedOk == sol.done /\ sol.result.tag = "Ok"

Least(a, b) == IF a <= b THEN a ELSE b

\* The node of the node table named `name`
NodeNamed(name) ==
    sol.graph.nodes[CHOOSE i \in 1 .. Len(sol.graph.nodes) : sol.graph.nodes[i].name = name]

\* The flows of the result, edge by edge
ResultFlows == [i \in 1 .. Len(sol.result.edges) |-> sol.result.edges[i].flow]

\* C16: on the two-node graph of the test solve succeeds with flow 10 on the
\* edge 0 -> 1, so that its cost flow * unit_cost is 10; and on any graph with
\* a single src -> sink edge the flow is at most the sink's capacity, the
\* edge's capacity and the source's supply.
C16_SimpleScenario ==
    /\ solve(SimpleGraph, SimpleProblem).tag = "Ok"
    /\ get_arc_cost(solve(SimpleGraph, SimpleProblem).edges, 0, 1) = <<10>>
    /\ (sol.done /\ sol.graph = SimpleGraph) =>
          /\ sol.result.tag = "Ok"
          /\ sol.result.edges[1].flow = 10
          /\ get_arc_cost(sol.result.edges, 0, 1) = <<10>>
    /\ (SolvedOk /\ Len(sol.graph.edges) = 1) =>
          sol.result.edges[1].flow <=
              Least(sol.graph.edges[1].capacity,
                    Least(NodeNamed(sol.graph.edges[1].src).supply,
                          NodeNamed(sol.graph.edges[1].sink).capacity))

\* C16 witness: the graph of the test has been solved
C16_Witness ==
    /\ sol.done
    /\ sol.graph = SimpleGraph
    /\ sol.result.tag = "Ok"

\* C17: a successful solve returns the input edge rows, in number and content,
\* each with a flow that is non-negative and at most the edge's capacity; no
\* node sends out more than its supply on top of what flows in, and what a
\* node ends up holding is within its capacity.
C17_FlowWithinLimits ==
    SolvedOk =>
        /\ Len(sol.result.edges) = Len(sol.graph.edges)
        /\ \A i \in 1 .. Len(sol.graph.edges) :
              /\ sol.result.edges[i].src = sol.graph.edges[i].src
              /\ sol.result.edges[i].sink = sol.graph.edges[i].sink
              /\ sol.result.edges[i].capacity = sol.graph.edges[i].capacity
              /\ sol.result.edges[i].unit_cost = sol.graph.edges[i].unit_cost
              /\ sol.result.edges[i].flow \in 0 .. sol.graph.edges[i].capacity
        /\ \A i \in 1 .. Len(sol.graph.nodes) :
              LET node == sol.graph.nodes[i]
                  out == FlowOut(sol.graph.edges, ResultFlows, node.name)
                  in == FlowIn(sol.graph.edges, ResultFlows, node.name)
              IN  /\ out - in <= node.supply
                  /\ node.supply + in - out <= node.capacity

\* C17 witness: two edges were solved, both carrying flow into a sink with
\* room for 30
C17_Witness ==
    /\ SolvedOk
    /\ Len(sol.result.edges) = 2
    /\ sol.result.edges[1].flow > 0
    /\ sol.result.edges[2].flow > 0
    /\ sol.graph.nodes[2].capacity = 30

\* The supply declared over the nodes, and the capacity of the nodes that are
\* the sink of an edge
TotalSupply ==
    SumTo([i \in 1 .. Len(sol.graph.nodes) |-> sol.graph.nodes[i].supply],
          Len(sol.graph.nodes))

TotalSinkCapacity ==
    SumTo([i \in 1 .. Len(sol.graph.nodes) |->
              IF \E j \in 1 .. Len(sol.graph.edges) :
                    sol.graph.edges[j].sink = sol.graph.nodes[i].name
              THEN sol.graph.nodes[i].capacity ELSE 0],
          Len(sol.graph.nodes))

\* What the nodes that are the source of an edge can keep themselves
TotalSourceCapacity ==
    SumTo([i \in 1 .. Len(sol.graph.nodes) |->
              IF \E j \in 1 .. Len(sol.graph.edges) :
                    sol.graph.edges[j].src = sol.graph.nodes[i].name
              THEN sol.graph.nodes[i].capacity ELSE 0],
          Len(sol.graph.nodes))

\* C18 as stated: when the declared supply exceeds the total sink capacity,
\* solve fails with the infeasible-problem error and returns no flow.
C18_Original ==
    (sol.done /\ Resolves(sol.graph) /\ TotalSupply > TotalSinkCapacity) =>
        sol.result = SolveErr("InfeasibleProblem")

\* C18 amended: a supply above the total sink capacity is not an error as long
\* as the source can keep the excess: solve then succeeds and the sinks take
\* no more than their capacity; solve fails with the infeasible-problem
\* error, returning no flow at all, when the supply exceeds what the sinks
\* and the source can hold together.
C18_InfeasibleBeyondAllCapacity ==
    (sol.done /\ Resolves(sol.graph)) =>
        /\ TotalSupply > TotalSinkCapacity + TotalSourceCapacity
              => sol.result = SolveErr("InfeasibleProblem")
        /\ (sol.graph = SimpleGraph) =>
              /\ TotalSupply > TotalSinkCapacity
              /\ sol.result.tag = "Ok"
        /\ (sol.result.tag = "Ok" /\ TotalSupply > TotalSinkCapacity) =>
              /\ SumTo(ResultFlows, Len(ResultFlows)) <= TotalSinkCapacity
              /\ TotalSupply - SumTo(ResultFlows, Len(ResultFlows)) <= TotalSourceCapacity
        /\ sol.result.tag = "Err" => sol.result.edges = <<>>

\* C18 witness: supply 100 against a sink capacity of 10 and a source
\* capacity of 20 was rejected
C18_Witness ==
    /\ sol.done
    /\ Resolves(sol.graph)
    /\ TotalSupply = 100
    /\ TotalSinkCapacity = 10
    /\ sol.result = SolveErr("InfeasibleProblem")

-----------------------------------------------------------------------------
(* Properties of the store's lock                                          *)

\* The tasks inside the lock on behalf of a call of the given names
Holding_(names) == {p \in Procs : pc[p] = "locked" /\ call[p].name \in names}

\* C22: the single reader/writer lock of the in-memory store gives mutual
\* exclusion: an insert never holds the map while another insert, a get or a
\* list holds it; gets and lists may hold it together.
C22_MutualExclusion ==
    /\ Cardinality(Holding_({"insert"})) <= 1
    /\ Holding_({"insert"}) # {} => Holding_({"get", "list"}) = {}
    /\ Holding_({"insert"}) = {p \in Procs : writer = p}
    /\ Holding_({"get", "list"}) = readers

\* C22 witness: a get and a list hold the map at the same time
C22_Witness ==
    /\ Cardinality(Holding_({"get", "list"})) = 2
    /\ \E p, q \in Procs : call[p].name = "get" /\ call[q].name = "list" /\ readers = {p, q}

\* A task holds no guard of the lock
HoldsNothing(p) == p \notin readers /\ writer # p

\* C23: no lock outlives the store call that took it: a get, a list or an
\* insert has given the lock back when it returns, so a caller working on the
\* snapshot it got holds nothing, and every call waiting for the lock
\* completes under fair scheduling.
C23_NoLockOutlivesCall ==
    /\ [](\A p \in Procs : pc[p] \in {"idle", "ret"} => HoldsNothing(p))
    /\ \A p \in Procs : (pc[p] = "wait") ~> (pc[p] = "idle")

\* C23 witness: a caller has the snapshot of a stored graph from get, nobody
\* holds the lock, and a get of the task that inserted the graph waits for it
C23_Witness ==
    \E p, q \in Procs :
        /\ pc[p] = "idle" /\ call[p].name = "get" /\ res[p].tag = "Some"
        /\ pc[q] = "wait" /\ call[q].name = "get"
        /\ Len(writes) = 1
        /\ readers = {} /\ writer = NoProc

-----------------------------------------------------------------------------
(* The ModelClaim controller: C24 - C26                                    *)

\* The pass that ran last saw a deletion timestamp and a status that is
\* missing or not Deleting
SawDeletionUnmarked ==
    /\ mc.last.done
    /\ mc.last.seen.deletion
    /\ (~mc.last.seen.status.some \/ mc.last.seen.status.state # "Deleting")

\* status.and_then(|status| status.spec.clone()) of the object the pass saw
CarriedSpec == IF mc.last.seen.status.some THEN mc.last.seen.status.spec ELSE NoSpec

\* C24: a reconcile pass that sees a deletion timestamp on a claim whose
\* status is missing or not Deleting makes exactly one request, a status
\* patch to Deleting with the previous status.spec, and returns a requeue
\* after 30 seconds; it asks nothing of the validator and leaves the
\* finalizer, the spec and the existence of the object alone, also when the
\* finalizer is missing.
C24_DeletionOnlyMarksDeleting ==
    SawDeletionUnmarked =>
        /\ Len(mc.last.pass.calls) = 1
        /\ mc.last.pass.calls =
              << Request("patch_status", "Deleting", CarriedSpec,
                         mc.last.pass.calls[1].ok) >>
        /\ mc.last.pass.action = Requeue(30)
        /\ mc.last.after.finalizer = mc.last.before.finalizer
        /\ mc.last.after.exists = mc.last.before.exists
        /\ mc.last.after.spec = mc.last.before.spec
        /\ mc.last.after.status
              \in {mc.last.before.status, ModelClaimStatus("Deleting", CarriedSpec)}

\* A claim that was Ready with status.spec s1, whose spec was since changed
\* to s2, is marked Deleting with s1 carried over
C24_Witness ==
    /\ SawDeletionUnmarked
    /\ mc.last.seen.status = ModelClaimStatus("Ready", "s1")
    /\ mc.last.seen.spec = "s2"
    /\ mc.last.before.status = ModelClaimStatus("Ready", "s1")
    /\ mc.last.after.status = ModelClaimStatus("Deleting", "s1")

\* Whether the last pass made a request of this kind, served or not
ClaimAsked(op) == \E i \in 1 .. Len(mc.last.pass.calls) : mc.last.pass.calls[i].op = op

\* Whether the last pass made a request of this kind that failed
ClaimFailed(op) ==
    \E i \in 1 .. Len(mc.last.pass.calls) :
        mc.last.pass.calls[i].op = op /\ ~mc.last.pass.calls[i].ok

\* C25: a pass asks for the removal of the finalizer only after it saw the
\* claim in state Deleting with the finalizer present and validator.delete
\* returned Ok in that same pass; when validator.delete fails the pass ends
\* there, the object is left as it was and the pass requeues after 30
\* seconds; so the finalizer of a claim is never gone before its deletion
\* work succeeded.
C25_FinalizerOnlyAfterDelete ==
    /\ (mc.last.done /\ ClaimAsked("remove_finalizer")) =>
          /\ mc.last.seen.status.some
          /\ mc.last.seen.status.state = "Deleting"
          /\ mc.last.seen.finalizer
          /\ Did(mc.last.pass, "delete")
    /\ (mc.last.done /\ ClaimFailed("delete")) =>
          /\ Len(mc.last.pass.calls) = 1
          /\ mc.last.after = mc.last.before
          /\ mc.last.pass.action = Requeue(30)
    /\ (mc.last.done /\ mc.last.before.finalizer /\ ~mc.last.after.finalizer) =>
          Did(mc.last.pass, "delete")
    /\ mc.released => mc.work

\* A pass on a Deleting claim whose deletion work succeeded removes the
\* finalizer, and the API server collects the object
C25_Witness ==
    /\ mc.last.done
    /\ Did(mc.last.pass, "delete")
    /\ Did(mc.last.pass, "remove_finalizer")
    /\ mc.last.before.finalizer
    /\ ~mc.last.after.exists
    /\ mc.released

\* Whether the last pass asked for a status patch to this state
ClaimWrote(state) ==
    \E i \in 1 .. Len(mc.last.pass.calls) :
        mc.last.pass.calls[i].op = "patch_status" /\ mc.last.pass.calls[i].state = state

\* Ready is asked for only after Pending or Replacing (or no status) was
\* seen with the finalizer present, no deletion timestamp and a successful
\* validation, and carries the spec that was validated
ReadyOnlyAfterValidation ==
    (mc.last.done /\ ClaimWrote("Ready")) =>
        /\ mc.last.seen.status.state \in {"Pending", "Replacing"}
        /\ mc.last.seen.finalizer
        /\ ~mc.last.seen.deletion
        /\ Did(mc.last.pass, "validate")
        /\ mc.last.pass.calls[2].spec = mc.last.seen.spec

\* A failed validation ends the pass: nothing is written, requeue after 30 s
FailedValidationWritesNothing ==
    (mc.last.done /\ ClaimFailed("validate")) =>
        /\ Len(mc.last.pass.calls) = 1
        /\ mc.last.after = mc.last.before
        /\ mc.last.pass.action = Requeue(30)

\* The last pass made no request and waits for a change
WroteNothing == mc.last.pass = Pass(<<>>, AwaitChange)

SawReady == mc.last.done /\ mc.last.seen.status.some /\ mc.last.seen.status.state = "Ready"

\* C26 as stated: Ready is written only after a successful validation of a
\* Pending or Replacing claim, a failed validation writes nothing, and every
\* pass that sees Ready writes nothing and waits for a change.
C26_Original ==
    /\ ReadyOnlyAfterValidation
    /\ FailedValidationWritesNothing
    /\ SawReady => WroteNothing

\* C26: Ready is written only after a successful validation of a Pending or
\* Replacing claim that has the finalizer and no deletion timestamp, a failed
\* validation writes nothing and requeues after 30 seconds, and a pass that
\* sees Ready on a claim with the finalizer and without a deletion timestamp
\* writes nothing and waits for a change.
C26_ReadyOnlyAfterValidation ==
    /\ ReadyOnlyAfterValidation
    /\ FailedValidationWritesNothing
    /\ (SawReady /\ mc.last.seen.finalizer /\ ~mc.last.seen.deletion) => WroteNothing

\* A Replacing claim is validated and patched to Ready with its new spec,
\* and the next pass that sees it waits
C26_Witness ==
    /\ mc.last.done
    /\ mc.last.seen.status = ModelClaimStatus("Replacing", "s1")
    /\ mc.last.seen.spec = "s2"
    /\ ClaimWrote("Ready")
    /\ mc.last.after.status = ModelClaimStatus("Ready", "s2")

-----------------------------------------------------------------------------
(* The ModelStorageBinding controller: C27                                 *)

\* Whether the last pass of the binding controller made this request with
\* this outcome
BindingDid(op, ok) ==
    \E i \in 1 .. Len(msb.last.result.calls) :
        msb.last.result.calls[i].op = op /\ msb.last.result.calls[i].ok = ok

\* C27: a reconcile pass of the ModelStorageBinding controller changes the
\* status only from Pending (or no status) to Ready, and only after
\* validate_model_storage_binding succeeded; a pass that sees Ready makes no
\* request and waits for a change; no pass asks for state Pending; and every
\* pass returns Ok: after a failed validation or a failed status patch the
\* object is as it was and the pass requeues after 30 seconds.
C27_OnlyPendingToReady ==
    msb.last.done =>
        /\ msb.last.result.ok
        /\ \A i \in 1 .. Len(msb.last.result.calls) :
              msb.last.result.calls[i].op = "patch_status" =>
                 /\ msb.last.result.calls[i].status.state = "Ready"
                 /\ msb.last.seen.status.state = "Pending"
                 /\ BindingDid("validate", TRUE)
        /\ msb.last.after # msb.last.before =>
              /\ msb.last.seen.status.state = "Pending"
              /\ BindingDid("validate", TRUE)
              /\ msb.last.after.status =
                    ModelStorageBindingStatus("Ready", msb.last.seen.spec.model,
                                              msb.last.seen.spec.storage)
              /\ msb.last.after.spec = msb.last.before.spec
              /\ msb.last.after.exists
        /\ msb.last.seen.status.state = "Ready" =>
              msb.last.result = BindingResult(TRUE, <<>>, AwaitChange)
        /\ (BindingDid("validate", FALSE) \/ BindingDid("patch_status", FALSE)) =>
              /\ msb.last.after = msb.last.before
              /\ msb.last.result.action = Requeue(30)

\* A pass on a binding without status whose status patch is refused returns
\* Ok with a requeue and leaves the object without status
C27_Witness ==
    /\ msb.last.done
    /\ ~msb.last.seen.status.some
    /\ BindingDid("validate", TRUE)
    /\ BindingDid("patch_status", FALSE)
    /\ msb.last.result.ok
    /\ msb.last.after.exists
    /\ ~msb.last.after.status.some

-----------------------------------------------------------------------------
(* AnsibleClient::spawn: C28 - C30                                         *)

\* The last spawn call that returned was for a box of this role
SpawnedFor(role) == ans.last.done /\ BoxGroupRole(ans.last.job.box) = role

\* The objects of the last call's box when it returned
BoxObjects == {j \in ans.last.after : j.box = ans.last.job.box}

\* The object the last call was to create, and whether it did
SpawnedObject == NewObject(ans.last.job, ans.last.n)

CreatedNothing == \A j \in ans.last.after : j.by # ans.last.n

\* What the last call asked of the cluster state after load_state
AskedOfCluster == SubSeq(ans.last.asked, 2, Len(ans.last.asked))

\* One of the checks of the last call returned Ok(false)
CheckFailed == \E i \in 1 .. Len(ans.last.asked) : ans.last.asked[i].out = "false"

\* C28: for a control-plane box spawn returns true, with the job created,
\* only after the one lock request it made returned true: lock() for new state
\* Joining or Disconnected, release() for every other new state; when
\* that request returns false spawn returns Ok(false), and whenever spawn
\* does not return true it has created no job.
C28_ControlPlaneNeedsLock ==
    SpawnedFor("ControlPlane") =>
        /\ ans.last.result = "true" =>
              /\ AskedOfCluster =
                    << Asked(IF ans.last.job.new_state \in {"Joining", "Disconnected"}
                             THEN "lock" ELSE "release", "true") >>
              /\ SpawnedObject \in ans.last.after
        /\ CheckFailed => ans.last.result = "false"
        /\ ans.last.result = "false" =>
              AskedOfCluster =
                 << Asked(IF ans.last.job.new_state \in {"Joining", "Disconnected"}
                          THEN "lock" ELSE "release", "false") >>
        /\ ans.last.result # "true" => CreatedNothing

\* A joining control-plane box gets its job after lock() returned true
C28_Witness ==
    /\ SpawnedFor("ControlPlane")
    /\ ans.last.job.new_state = "Joining"
    /\ ans.last.result = "true"
    /\ AskedOfCluster = << Asked("lock", "true") >>
    /\ SpawnedObject \in ans.jobs

\* C29: for a worker box spawn returns true, with the job created, for new
\* state Joining only after is_control_plane_ready() and then release()
\* returned true, for Disconnected only after release() returned true, and
\* for every other state without asking the cluster state anything beyond
\* loading it; when a check returns false spawn returns Ok(false) at once
\* and has created no job.
C29_WorkerChecks ==
    SpawnedFor("Worker") =>
        /\ ans.last.result = "true" =>
              /\ SpawnedObject \in ans.last.after
              /\ AskedOfCluster =
                    CASE ans.last.job.new_state = "Joining" ->
                            << Asked("is_control_plane_ready", "true"),
                               Asked("release", "true") >>
                      [] ans.last.job.new_state = "Disconnected" ->
                            << Asked("release", "true") >>
                      [] OTHER -> <<>>
        /\ (ans.last.job.new_state \notin {"Joining", "Disconnected"}) =>
              /\ Len(ans.last.asked) <= 1
              /\ ans.last.result # "false"
        /\ CheckFailed =>
              /\ ans.last.result = "false"
              /\ ans.last.asked[Len(ans.last.asked)].out = "false"
              /\ CreatedNothing
        /\ ans.last.result = "false" => CheckFailed

\* A joining worker whose control plane is ready is turned away by release()
C29_Witness ==
    /\ SpawnedFor("Worker")
    /\ ans.last.job.new_state = "Joining"
    /\ AskedOfCluster = << Asked("is_control_plane_ready", "true"),
                           Asked("release", "false") >>
    /\ ans.last.result = "false"
    /\ ans.last.before # {}

\* C30: when a spawn call gets as far as the cluster state, and so whenever
\* it returns Ok, no CronJob or Job of its box from before the call is left,
\* nor a Job made meanwhile from such a CronJob; a call that returns
\* Ok(false) leaves the box without any, and a call that returns true leaves
\* it with exactly the object it created.
C30_PreviousJobsDeleted ==
    ans.last.done =>
        /\ (ans.last.asked # <<>> \/ ans.last.result \in {"true", "false"}) =>
              \A j \in BoxObjects : j.by = ans.last.n
        /\ ans.last.result = "false" => BoxObjects = {}
        /\ ans.last.result = "true" => BoxObjects = {SpawnedObject}

\* A box that had a CronJob and a Job made from it has neither after a spawn
\* that returned Ok(false)
C30_Witness ==
    /\ ans.last.done
    /\ ans.last.result = "false"
    /\ \E c, j \in ans.last.before :
          /\ c.box = ans.last.job.box /\ c.kind = "CronJob"
          /\ j.box = ans.last.job.box /\ j.kind = "Job" /\ j.child
    /\ BoxObjects = {}

====
